---- MODULE Spec2Model ----
(***************************************************************************)
(* State-machine model of the iSCSI lifecycle controller                   *)
(* (qalib/client/iscsi.py, class ISCSIInitiator), the process-wide         *)
(* registries and per-host semaphores it shares                            *)
(* (qalib/corelibs/system/__init__.py) and the polling generator it is     *)
(* built on (qalib/qabase/polling.py).                                     *)
(*                                                                         *)
(* Threads call the controller's methods on one client host.  A step of a  *)
(* thread is one access to shared state (a registry statement, a semaphore *)
(* operation) together with the thread-local computation around it; a      *)
(* remote command is in flight between the step that starts it and the     *)
(* step that consumes its (exit status, output) pair, which the            *)
(* environment chooses.                                                    *)
(***************************************************************************)
EXTENDS Integers, Sequences, FiniteSets, TLC

(***************************************************************************)
(* Bounds of the model.                                                    *)
(***************************************************************************)
NThreads == 2
MaxCalls == 3
MaxConcurrentCalls == 2
MaxLoginTimeout == 2
FastCmd == 1
HungCmd == 1000000
ShortDiscoveryTimeout == 3
MaxHandleCalls == 3             \* method calls made on an Async handle
MaxChunks == 2                  \* chunks of output the remote process writes
MaxSshCalls == 1                \* synchronous commands run over ssh
MaxPollRetries == 3             \* largest retries argument given to poll()
MaxPollTimeout == 11            \* largest timeout argument given to poll()
MaxTasks == 3                   \* tasks of one batch given to the task runner
MaxOpsPerHost == 9              \* commands under way against one host
MaxCmdLen == 3                  \* tokens of a command started asynchronously
MaxGuardedOps == 10             \* operations under way under the limiters
MaxConstructions == 4           \* System objects constructed for the host

(***************************************************************************)
(* Program constants.                                                      *)
(***************************************************************************)
DELETE_RETRY_COUNT == 12
DISCOVERY_RETRY_COUNT == 5
DISCOVERY_TIMEOUT == 100
ISCSIADM_RETRY_INTERVAL == 5
LOGOUT_RETRY_COUNT == 12
LOGIN_RETRY_INTERVAL == 1
LOGIN_DEFAULT_TIMEOUT == 20
ISCSIADM_SEM_VALUE == 8
UDEV_SEM_VALUE == 1
RETRY_ATTEMPTS == 100
POLL_DEFAULT_TIMEOUT == 1000000
DEFAULT_PORT == 3260
MAX_ISCSI_WORKER == 10
DESTROY_IFACE_RETRIES == 10
SSH_SEMA_VALUE == 9
BATCH_WORKERS == 16

Threads == 1..NThreads

\* self.system.name of the one client host the threads operate on
SystemName == "client1"
Hosts == {SystemName}

None == "None"
IQNs == {"iqn.a", "iqn.b"}
IPs == {"10.0.0.1", "10.0.0.2"}

\* the ip argument of login, logout and delete: a portal address or omitted
PortalArgs == {"10.0.0.1", None}
DefaultIface == "default"

\* exit statuses the remote command may produce; 1 stands for any status
\* the controller gives no special meaning to
RetCodes == {0, 1, 3, 6, 7, 8, 21}

\* how long one remote command may take, in seconds
Durations == {FastCmd, HungCmd}

\* namedtuple IscsiTarget(ip, port, iqn, iface), compared by value
IscsiTarget(ip, port, iqn, iface) ==
    [ip |-> ip, port |-> port, iqn |-> iqn, iface |-> iface]

(***************************************************************************)
(* Command output is a sequence of text fragments whose concatenation is   *)
(* the output string.  `s in output` (substring) holds when s is one of    *)
(* the fragments; `output in [s1, s2]` (list membership) holds when the    *)
(* whole output is exactly s1 or s2.                                       *)
(***************************************************************************)
Contains(output, s) == \E i \in DOMAIN output : output[i] = s

IsExactly(output, s) == output = <<s>>

SeqToSet(s) == {s[i] : i \in DOMAIN s}

\* list.remove(x): drops the first occurrence of x (x must be present)
RECURSIVE ListRemove(_, _)
ListRemove(s, x) ==
    IF s = <<>> THEN <<>>
    ELSE IF Head(s) = x THEN Tail(s)
    ELSE <<Head(s)>> \o ListRemove(Tail(s), x)

(***************************************************************************)
(* poll(): the effective retry count and time budget, and the loop test.   *)
(* A timeout argument of 0 stands for a falsy timeout (None or 0).         *)
(***************************************************************************)
PollRetries(retries, interval, timeout) ==
    IF timeout # 0 THEN timeout \div interval ELSE retries

PollTimeout(timeout) ==
    IF timeout # 0 THEN timeout ELSE POLL_DEFAULT_TIMEOUT

\* variant: the while test lets one more retry through
PollContinuesInclusive(current, retries, elapsed, timeout) ==
    (current <= retries) /\ (elapsed < timeout)

\* line 105: while (current < retries) and ((time() - start_time) < timeout)
PollContinues(current, retries, elapsed, timeout) ==
    (current < retries) /\ (elapsed < timeout)

\* time() differences only matter up to the largest threshold they are
\* compared with, so the clock saturates just above it
MaxElapsed == POLL_DEFAULT_TIMEOUT + 1

Tick(elapsed, d) ==
    IF elapsed + d > MaxElapsed THEN MaxElapsed ELSE elapsed + d

VARIABLES
    ISCSI_LOGGEDIN_TARGETS, \* host name -> [present, list]: targets logged in
    DISCOVERED_TARGETS,     \* host name -> [present, list]: targets discovered
    ISCSIADM_SEMIS,         \* host name -> free permits of Semaphore(8)
    UDEV_SEMIS,             \* host name -> free permits of Semaphore(1)
    pc,                     \* thread -> position in the method it runs
    call,                   \* thread -> method called and its arguments
    loc,                    \* thread -> local variables of the call
    calls,                  \* number of method calls that may still start
    hist,                   \* history: everDiscovered, the targets ever put
                            \* into DISCOVERED_TARGETS; loginsOk, the
                            \* targets of the logins that returned after
                            \* exit status 0
    handle,                 \* the fields of one ssh.Async object
    remote,                 \* the far end of the handle's connection: the
                            \* process, the kill commands received, the
                            \* closes of the session and of the transport
    apc,                    \* position of the handle's user (main) and of
                            \* its background reader (recv)
    acall,                  \* the handle method the user is in, its locals
    ahist,                  \* history: completed, a kill() or wait() has
                            \* returned; delivered, the chunks read() has
                            \* returned; twice, some chunk was returned by
                            \* two reads; fetches, the number of calls of
                            \* recv_exit_status on the handle's session
    ssh,                    \* one SystemConnection.run_cmd call: position,
                            \* arguments, locals, the transport's state and
                            \* the history of its connection attempts
    bg,                     \* the background thread of
                            \* _open_session_with_timeout and its two lists
    SEMI_LOCKS,             \* the thread holding _SEMI_LOCKS, 0 when free
    cpc,                    \* thread -> position in System.__init__ or in
                            \* its use of the system's semaphores
    constructions,          \* number of System objects that may still be made
    made,                   \* history: the semaphores ever created
    gen,                    \* one generator made by poll(): its arguments,
                            \* its locals, where it is suspended, and the
                            \* number of times it has invoked the operation
    consumer,               \* the code iterating over the generator: the
                            \* results it has asked for and got
    batch,                  \* one batch operation: its caller, the worker
                            \* cap it passed and the state of its tasks
    sema,                   \* the semaphore of the ssh module: free permits
    ops,                    \* host -> the commands under way against it:
                            \* how many wait for sema, are inside `with
                            \* sema` opening a transport, or run their
                            \* command over the transport they opened
    guarded,                \* position -> the operations of the host that
                            \* are there: waiting to enter a `with` block
                            \* of a limiter, or inside it
    launch                  \* one SSH.exec_command_async call: its command,
                            \* the fields of the Async object it builds,
                            \* the state of the transport it opened and
                            \* how the call ended

iscsiVars == <<ISCSI_LOGGEDIN_TARGETS, DISCOVERED_TARGETS, ISCSIADM_SEMIS,
               UDEV_SEMIS, pc, call, loc, calls, hist>>

asyncVars == <<handle, remote, apc, acall, ahist>>

sshVars == <<ssh, bg>>

systemVars == <<SEMI_LOCKS, cpc, constructions, made>>

pollVars == <<gen, consumer>>

batchVars == <<batch>>

fleetVars == <<sema, ops>>

launchVars == <<launch>>

limiterVars == <<guarded>>

\* the state the initiator's methods do not touch
elsewhere ==
    <<asyncVars, sshVars, systemVars, pollVars, batchVars, fleetVars,
      launchVars, limiterVars>>

\* the state the methods of an Async handle do not touch
exceptAsync ==
    <<iscsiVars, sshVars, systemVars, pollVars, batchVars, fleetVars,
      launchVars, limiterVars>>

\* the state a synchronous command does not touch
exceptSsh ==
    <<iscsiVars, asyncVars, systemVars, pollVars, batchVars, fleetVars,
      launchVars, limiterVars>>

\* the state System.__init__ and the users of its semaphores do not touch
exceptSystem == <<ISCSI_LOGGEDIN_TARGETS, DISCOVERED_TARGETS, pc, call, loc,
                  calls, hist, asyncVars, sshVars, pollVars, batchVars,
                  fleetVars, launchVars, guarded>>

\* the state a generator of poll() and its consumer do not touch
exceptPoll ==
    <<iscsiVars, asyncVars, sshVars, systemVars, batchVars, fleetVars,
      launchVars, limiterVars>>

\* the state a batch operation's fan-out does not touch
exceptBatch ==
    <<iscsiVars, asyncVars, sshVars, systemVars, pollVars, fleetVars,
      launchVars, limiterVars>>

\* the state the commands run against several hosts do not touch
exceptFleet ==
    <<iscsiVars, asyncVars, sshVars, systemVars, pollVars, batchVars,
      launchVars, limiterVars>>

\* the state the start of an asynchronous command does not touch
exceptLaunch ==
    <<iscsiVars, asyncVars, sshVars, systemVars, pollVars, batchVars,
      fleetVars, limiterVars>>

\* the state the operations queueing at the limiters do not touch
exceptLimiter ==
    <<ISCSI_LOGGEDIN_TARGETS, DISCOVERED_TARGETS, pc, call, loc, calls, hist,
      asyncVars, sshVars, systemVars, pollVars, batchVars, fleetVars,
      launchVars>>

vars == <<iscsiVars, elsewhere>>

registries == <<ISCSI_LOGGEDIN_TARGETS, DISCOVERED_TARGETS, hist>>

NoHistory == [everDiscovered |-> {}, loginsOk |-> {}]

\* a dictionary without a key for the host
NoEntry == [present |-> FALSE, list |-> <<>>]

EmptyEntry == [present |-> TRUE, list |-> <<>>]

NoCall == [op |-> "none", iqn |-> None, iqns |-> {}, ip |-> None,
           port |-> DEFAULT_PORT, iface |-> DefaultIface, timeout |-> 0]

\* current/elapsed: poll's loop counter and clock (current counts the
\* commands that were run and did not end the loop); allBusy: every
\* command of a logout or delete exited 6; benign: the call ended on an
\* outcome classified as already satisfied; snap: a copied list being
\* iterated; pend: parsed discovery items still to register; dict:
\* ip_iqn_dict of the attempt that matched; pre: the registry entry of the
\* host when the call began; matched: an attempt reported every requested
\* iqn; failed: a task of a batch raised; permits: iscsiadm permits held
NoLoc == [current |-> 0, elapsed |-> 0, allBusy |-> TRUE,
          benign |-> FALSE, snap |-> <<>>, pend |-> {},
          dict |-> {}, pre |-> NoEntry,
          matched |-> FALSE, failed |-> FALSE, permits |-> 0,
          status |-> -1, gone |-> FALSE, result |-> "none"]

\* Async.__init__ (lines 322-330) followed by a successful _exec_command
\* (lines 348-385): the session is open, the pid line is read, the reader
\* thread runs, nothing is cached and no exit status is known
\* (an exit status is a one-element sequence, <<>> is None)
NewHandle == [tp |-> "transport", session |-> "session",
              output_cache |-> <<>>, exit_status |-> <<>>,
              thread |-> "thread", pid |-> "4242",
              last_read_pointer |-> 0]

\* no method of the handle is running; left more calls may be made
NoACall(left) == [op |-> "none", late |-> FALSE, n |-> 0,
                  result |-> "none", value |-> <<>>, left |-> left]

AsyncInit ==
    /\ handle = NewHandle
    /\ remote = [proc |-> "running", status |-> 0, kills |-> 0,
                 sessionCloses |-> 0, tpCloses |-> 0]
    /\ apc = [main |-> "idle", recv |-> "recv"]
    /\ acall = NoACall(MaxHandleCalls)
    /\ ahist = [completed |-> FALSE, delivered |-> {}, twice |-> FALSE,
                fetches |-> 0]

\* exceptions: their class and the text str() gives
Exc(type, text) == [type |-> type, text |-> text]

NoExc == Exc("none", "")

\* a connect attempt that succeeded; a session that was opened
Connected == Exc("connected", "")

Session == Exc("session", "")

\* no command is being run; left more may be
NoSsh(left) ==
    [pc |-> "idle", left |-> left, error_expected |-> TRUE,
     accepts_timeout |-> TRUE, attempt |-> 0, tried |-> 0, banners |-> 0,
     last |-> NoExc, opened |-> NoExc, tp |-> "none", tpCloses |-> 0,
     osession |-> NoExc, completed |-> FALSE, status |-> 0,
     ex |-> NoExc, result |-> "none"]

NoBg == [state |-> "none", session_list |-> <<>>,
         bg_thread_exception_list |-> <<>>, timedOut |-> FALSE]

SshInit ==
    /\ ssh = NoSsh(MaxSshCalls)
    /\ bg = NoBg

\* the host's System object has been constructed: its two semaphores
\* exist (see Init), the lock is free
SystemInit ==
    /\ SEMI_LOCKS = 0
    /\ cpc = [t \in Threads |-> "ready"]
    /\ constructions = 0
    /\ made = [udev |-> 1, iscsiadm |-> 1]

\* poll() has not been called
\* (the timeout argument is <<>> for None and <<s>> for s seconds; budget is
\* the local `timeout` once lines 95-100 have run; given is the retries
\* argument as it was passed)
NoGen == [state |-> "none", retries |-> 0, interval |-> 1, timeout |-> <<>>,
          exception |-> FALSE, current |-> 0, elapsed |-> 0, invoked |-> 0,
          budget |-> 0, given |-> 0]

\* (kind is "for" for a loop written by the caller and "result_poll" for
\* the loop of result_poll; matched counts the results delivered that were
\* equal to expected_result; outcome is how result_poll ended)
PollInit ==
    /\ gen = NoGen
    /\ consumer = [requests |-> 0, results |-> 0, stopped |-> FALSE,
                   kind |-> "for", expected |-> TRUE, matched |-> 0,
                   outcome |-> "none"]

\* no batch operation has been called
NoBatch == [state |-> "none", op |-> "none", on_hardware |-> FALSE,
            max_workers |-> 0, tasks |-> <<>>, stopped |-> FALSE]

BatchInit == batch = NoBatch

\* the hosts commands are run against
Fleet == {"client1", "client2"}

\* ssh/__init__.py line 30 at import, and no command under way
FleetInit ==
    /\ sema = SSH_SEMA_VALUE
    /\ ops = [h \in Fleet |-> [waiting |-> 0, connecting |-> 0,
                                running |-> 0]]

\* exec_command_async has not been called: no transport, no Async object
\* (a field that is None is "None"; pid is <<>> for None)
NoLaunch == [state |-> "none", cmd |-> <<>>, fullcmd |-> <<>>,
             tp |-> "None", session |-> "None", thread |-> "None",
             pid |-> <<>>, outcome |-> "none"]

LaunchInit == launch = NoLaunch

\* where an operation that uses a limiter can be: before a `with` block
\* ("w_...") or inside it.  single: a block around one command (lines 257,
\* 314, 343, 373, 401, 431, 646, 1021); loop: a block around a retry loop
\* (login, logout, delete: lines 827, 176, 941); attempt: the block inside
\* the loop of destroy_iface (line 979); udev: a block of the device
\* semaphore (iscsi.py line 890, client.py lines 164, 301, 320, 440)
Positions == {"w_single", "single", "w_loop", "loop", "w_attempt", "attempt",
              "w_udev", "udev"}

LimiterInit == guarded = [p \in Positions |-> 0]

ElsewhereInit ==
    /\ AsyncInit /\ SshInit /\ SystemInit /\ PollInit /\ BatchInit
    /\ FleetInit /\ LaunchInit /\ LimiterInit

Init ==
    /\ ISCSI_LOGGEDIN_TARGETS = [h \in Hosts |-> NoEntry]
    /\ DISCOVERED_TARGETS = [h \in Hosts |-> NoEntry]
    /\ ISCSIADM_SEMIS = [h \in Hosts |-> ISCSIADM_SEM_VALUE]
    /\ UDEV_SEMIS = [h \in Hosts |-> UDEV_SEM_VALUE]
    /\ pc = [t \in Threads |-> "idle"]
    /\ call = [t \in Threads |-> NoCall]
    /\ loc = [t \in Threads |-> NoLoc]
    /\ calls = MaxConcurrentCalls
    /\ hist = NoHistory
    /\ ElsewhereInit

\* the module is imported and no System object exists yet: lines 22, 29
\* and 32, _UDEV_SEMIS = {}, _ISCSIADM_SEMIS = {}, the lock free
EmptyDict == [h \in {} |-> 0]

ConstructInit ==
    /\ ISCSI_LOGGEDIN_TARGETS = [h \in Hosts |-> NoEntry]
    /\ DISCOVERED_TARGETS = [h \in Hosts |-> NoEntry]
    /\ ISCSIADM_SEMIS = EmptyDict
    /\ UDEV_SEMIS = EmptyDict
    /\ pc = [t \in Threads |-> "idle"]
    /\ call = [t \in Threads |-> NoCall]
    /\ loc = [t \in Threads |-> NoLoc]
    /\ calls = 0
    /\ hist = NoHistory
    /\ AsyncInit
    /\ SshInit
    /\ PollInit
    /\ BatchInit
    /\ FleetInit
    /\ LaunchInit
    /\ LimiterInit
    /\ SEMI_LOCKS = 0
    /\ cpc = [t \in Threads |-> "idle"]
    /\ constructions = MaxConstructions
    /\ made = [udev |-> 0, iscsiadm |-> 0]

\* the same program driven by callers that make more calls, one at a time
SeqInit ==
    /\ ISCSI_LOGGEDIN_TARGETS = [h \in Hosts |-> NoEntry]
    /\ DISCOVERED_TARGETS = [h \in Hosts |-> NoEntry]
    /\ ISCSIADM_SEMIS = [h \in Hosts |-> ISCSIADM_SEM_VALUE]
    /\ UDEV_SEMIS = [h \in Hosts |-> UDEV_SEM_VALUE]
    /\ pc = [t \in Threads |-> "idle"]
    /\ call = [t \in Threads |-> NoCall]
    /\ loc = [t \in Threads |-> NoLoc]
    /\ calls = MaxCalls
    /\ hist = NoHistory
    /\ ElsewhereInit

(***************************************************************************)
(* Helpers shared by the methods.                                          *)
(***************************************************************************)
\* a caller invokes a method
Invoke(t, c, start, pre) ==
    /\ pc[t] = "idle"
    /\ calls > 0
    /\ calls' = calls - 1
    /\ call' = [call EXCEPT ![t] = c]
    /\ loc' = [loc EXCEPT ![t] = [NoLoc EXCEPT !.pre = pre]]
    /\ pc' = [pc EXCEPT ![t] = start]

\* `with _ISCSIADM_SEMIS[self.system.name]:` entered
SemAcquire(t) ==
    /\ ISCSIADM_SEMIS[SystemName] > 0
    /\ ISCSIADM_SEMIS' = [ISCSIADM_SEMIS EXCEPT ![SystemName] = @ - 1]

\* the with block left, by return, break or exception
SemRelease(t) ==
    ISCSIADM_SEMIS' = [ISCSIADM_SEMIS EXCEPT ![SystemName] = @ + 1]

\* the method call of thread t ends with outcome res and locals l
Done(t, l, res) ==
    /\ pc' = [pc EXCEPT ![t] = "done"]
    /\ loc' = [loc EXCEPT ![t] = [l EXCEPT !.result = res, !.permits = 0]]

\* locals after a command that took d seconds
AfterCmd(l, d) ==
    [l EXCEPT !.elapsed = Tick(@, d)]

\* history of logout and delete: the command exited with status ret
Busy(l, ret) ==
    [l EXCEPT !.allBusy = @ /\ (ret = 6)]

\* the for loop over the generator is left for good: the generator's
\* counter and clock are dead
LoopLeft(l) ==
    [l EXCEPT !.current = 0, !.elapsed = 0]

\* locals after poll's `current += 1; sleep(interval)`
AfterSleep(l, interval) ==
    [l EXCEPT !.current = @ + 1, !.elapsed = Tick(@, interval)]

\* the caller has consumed the outcome
Finish(t) ==
    /\ pc[t] = "done"
    /\ pc' = [pc EXCEPT ![t] = "idle"]
    /\ call' = [call EXCEPT ![t] = NoCall]
    /\ loc' = [loc EXCEPT ![t] = NoLoc]
    /\ UNCHANGED <<registries, ISCSIADM_SEMIS, UDEV_SEMIS, calls>>
    /\ UNCHANGED elsewhere

(***************************************************************************)
(* ISCSIInitiator.login(iqn, ip, port, iface_name, timeout).  Also the     *)
(* body of each task login_all_targets hands to the task runner, with the  *)
(* task's arguments (target.iqn, target.ip, 3260, target.iface).           *)
(***************************************************************************)
LoginTarget(t) ==
    IF call[t].op = "login"
    THEN IscsiTarget(call[t].ip, call[t].port, call[t].iqn, call[t].iface)
    ELSE LET x == Head(loc[t].snap)
         IN  IscsiTarget(x.ip, DEFAULT_PORT, x.iqn, x.iface)

LoginRetries(t) ==
    PollRetries(IF call[t].op = "login" THEN call[t].timeout
                ELSE LOGIN_DEFAULT_TIMEOUT,
                LOGIN_RETRY_INTERVAL, 0)

\* the outcome of a login goes to the caller, or to the task runner of
\* login_all_targets, which goes on with the next task
LoginOutcome(t, l, res) ==
    IF call[t].op = "login"
    THEN Done(t, l, res)
    ELSE /\ pc' = [pc EXCEPT ![t] = "lat_task"]
         /\ loc' = [loc EXCEPT ![t] =
                      [NoLoc EXCEPT !.snap = Tail(l.snap), !.pre = l.pre,
                                    !.failed = l.failed \/ (res # "returned")]]

\* login leaves its with block: the permit goes back
LoginEnd(t, l, res) ==
    /\ SemRelease(t)
    /\ LoginOutcome(t, l, res)

\* history: a login whose command exited 0 returns
LoginSucceeded(t) ==
    hist' = [hist EXCEPT !.loginsOk = @ \cup {LoginTarget(t)}]

\* lines 855-859 after the for loop: the message is built from `status`,
\* which is unbound if the loop body never ran
LoginLoopEnded(l) ==
    IF l.current = 0 THEN "UnboundLocalError" ELSE "EnvironmentError"

\* a variant of the test of line 848 that knows exit code 21 only
LoginStatusBenignOnly21(status) == status = 21

\* line 848: status in [3, 8, 21]
LoginStatusBenign(status) == status \in {3, 8, 21}

\* the local `status` of login() after the command has exited with ret;
\* kept for the calls whose outcome goes to the caller, a task of
\* login_all_targets drops its locals when it ends
WithStatus(t, l, ret) ==
    IF call[t].op = "login" THEN [l EXCEPT !.status = ret] ELSE l

CallLogin(t) ==
    \E iqn \in IQNs, ip \in PortalArgs, timeout \in {0, MaxLoginTimeout} :
        /\ Invoke(t, [NoCall EXCEPT !.op = "login", !.iqn = iqn, !.ip = ip,
                                    !.timeout = timeout], "login_acquire",
                  ISCSI_LOGGEDIN_TARGETS[SystemName])
        /\ UNCHANGED <<registries, ISCSIADM_SEMIS, UDEV_SEMIS>>
        /\ UNCHANGED elsewhere

\* line 827: with _ISCSIADM_SEMIS[self.system.name]; lines 836-838: poll's
\* first while test, after which the first command is started or, with no
\* retry to make, the loop ends at once and the with block is left
LoginAcquire(t) ==
    /\ pc[t] = "login_acquire"
    /\ ISCSIADM_SEMIS[SystemName] > 0
    /\ IF PollContinues(0, LoginRetries(t), 0, PollTimeout(0))
       THEN /\ SemAcquire(t)
            /\ pc' = [pc EXCEPT ![t] = "login_cmd"]
            /\ loc' = [loc EXCEPT ![t].permits = 1]
       ELSE /\ LoginOutcome(t, loc[t], LoginLoopEnded(loc[t]))
            /\ UNCHANGED ISCSIADM_SEMIS
    /\ UNCHANGED <<registries, UDEV_SEMIS, call, calls>>
    /\ UNCHANGED elsewhere

\* the login command returns (lines 838-854); after a failed attempt poll
\* sleeps and tests its while condition again
LoginCmd(t) ==
    /\ pc[t] = "login_cmd"
    /\ \E ret \in RetCodes :
         IF ret = 0
         THEN /\ pc' = [pc EXCEPT ![t] =
                          IF ISCSI_LOGGEDIN_TARGETS[SystemName].present
                          THEN "login_845" ELSE "login_842"]
              /\ loc' = [loc EXCEPT ![t] =
                           WithStatus(t, LoopLeft(loc[t]), ret)]
              /\ UNCHANGED ISCSIADM_SEMIS
         ELSE IF LoginStatusBenign(ret)
         THEN LoginEnd(t, WithStatus(t, [LoopLeft(loc[t]) EXCEPT
                                             !.benign = TRUE], ret),
                       "returned")
         ELSE \E d \in Durations :
              LET l2 == AfterSleep(AfterCmd(WithStatus(t, loc[t], ret), d),
                                   LOGIN_RETRY_INTERVAL)
              IN  IF PollContinues(l2.current, LoginRetries(t),
                                   l2.elapsed, PollTimeout(0))
                  THEN /\ pc' = pc
                       /\ loc' = [loc EXCEPT ![t] = l2]
                       /\ UNCHANGED ISCSIADM_SEMIS
                  ELSE LoginEnd(t, l2, LoginLoopEnded(l2))
    /\ UNCHANGED <<registries, UDEV_SEMIS, call, calls>>
    /\ UNCHANGED elsewhere

\* line 842: ISCSI_LOGGEDIN_TARGETS[self.system.name] = []
Login842(t) ==
    /\ pc[t] = "login_842"
    /\ ISCSI_LOGGEDIN_TARGETS' =
         [ISCSI_LOGGEDIN_TARGETS EXCEPT ![SystemName] = EmptyEntry]
    /\ pc' = [pc EXCEPT ![t] = "login_843"]
    /\ UNCHANGED <<DISCOVERED_TARGETS, hist, ISCSIADM_SEMIS,
                   UDEV_SEMIS, call, loc, calls>>
    /\ UNCHANGED elsewhere

\* line 843: ISCSI_LOGGEDIN_TARGETS[self.system.name].append(target); return
Login843(t) ==
    /\ pc[t] = "login_843"
    /\ IF ISCSI_LOGGEDIN_TARGETS[SystemName].present
       THEN /\ ISCSI_LOGGEDIN_TARGETS' =
                 [ISCSI_LOGGEDIN_TARGETS EXCEPT ![SystemName].list =
                     Append(@, LoginTarget(t))]
            /\ LoginSucceeded(t)
            /\ LoginEnd(t, loc[t], "returned")
       ELSE /\ UNCHANGED <<ISCSI_LOGGEDIN_TARGETS, hist>>
            /\ LoginEnd(t, loc[t], "KeyError")
    /\ UNCHANGED <<DISCOVERED_TARGETS, UDEV_SEMIS, call, calls>>
    /\ UNCHANGED elsewhere

\* line 845: if target not in ISCSI_LOGGEDIN_TARGETS[self.system.name]
Login845(t) ==
    /\ pc[t] = "login_845"
    /\ IF ~ISCSI_LOGGEDIN_TARGETS[SystemName].present
       THEN /\ LoginEnd(t, loc[t], "KeyError")
            /\ UNCHANGED hist
       ELSE IF LoginTarget(t) \in SeqToSet(ISCSI_LOGGEDIN_TARGETS[SystemName].list)
       THEN /\ LoginSucceeded(t)
            /\ LoginEnd(t, loc[t], "returned")
       ELSE /\ pc' = [pc EXCEPT ![t] = "login_846"]
            /\ UNCHANGED <<loc, ISCSIADM_SEMIS, hist>>
    /\ UNCHANGED <<ISCSI_LOGGEDIN_TARGETS, DISCOVERED_TARGETS, UDEV_SEMIS,
                   call, calls>>
    /\ UNCHANGED elsewhere

\* line 846: ISCSI_LOGGEDIN_TARGETS[self.system.name].append(target); return
Login846(t) ==
    /\ pc[t] = "login_846"
    /\ IF ISCSI_LOGGEDIN_TARGETS[SystemName].present
       THEN /\ ISCSI_LOGGEDIN_TARGETS' =
                 [ISCSI_LOGGEDIN_TARGETS EXCEPT ![SystemName].list =
                     Append(@, LoginTarget(t))]
            /\ LoginSucceeded(t)
            /\ LoginEnd(t, loc[t], "returned")
       ELSE /\ UNCHANGED <<ISCSI_LOGGEDIN_TARGETS, hist>>
            /\ LoginEnd(t, loc[t], "KeyError")
    /\ UNCHANGED <<DISCOVERED_TARGETS, UDEV_SEMIS, call, calls>>
    /\ UNCHANGED elsewhere

(***************************************************************************)
(* ISCSIInitiator.logout(iqn, ip, port, iface_name)                        *)
(***************************************************************************)
\* outputs of the logout command the environment may produce
LogoutOutputs ==
    { <<"iscsiadm: initiator reported error">>,
      <<"No matching sessions found">>,
      <<"iscsiadm: ", "No matching sessions found">>,
      <<"iscsiadm: ", "Could not read iface info for", " iface0">> }

\* the output names a session or an interface as already gone
SaysGone(output) ==
    \E i \in DOMAIN output :
        output[i] \in {"No matching sessions found",
                       "Could not read iface info for",
                       "Could not read iface info",
                       "Could not delete iface"}

\* lines 169-171 and the test of line 183
LogoutAlreadyLoggedOut(ret, output) ==
    \/ ret \in {3, 7, 21}
    \/ IsExactly(output, "No matching sessions found")
    \/ IsExactly(output, "Could not read iface info for")

\* lines 584-596: the loop over a copy of the host's list
RECURSIVE RemoveLoop(_, _, _, _)
RemoveLoop(copy, list, ip, iqn) ==
    IF copy = <<>> THEN list
    ELSE LET target == Head(copy) IN
         IF target.iqn = iqn
         THEN IF ip # None
              THEN IF target.ip = ip
                   THEN ListRemove(list, target)        \* remove; break
                   ELSE RemoveLoop(Tail(copy), list, ip, iqn)
              ELSE RemoveLoop(Tail(copy), ListRemove(list, target), ip, iqn)
         ELSE RemoveLoop(Tail(copy), list, ip, iqn)

\* lines 582-583: the condition under which the loop is entered
RemoveLoopEntered(entry) ==
    entry.present /\ (entry.list = <<>>)

\* remove_iscsi_loggedin_target_using_iqn(ip, iqn), lines 574-596
remove_iscsi_loggedin_target_using_iqn(entry, ip, iqn) ==
    IF RemoveLoopEntered(entry)
    THEN [entry EXCEPT !.list = RemoveLoop(entry.list, entry.list, ip, iqn)]
    ELSE entry

CallLogout(t) ==
    \E iqn \in IQNs, ip \in PortalArgs :
        /\ Invoke(t, [NoCall EXCEPT !.op = "logout", !.iqn = iqn, !.ip = ip],
                  "logout_acquire", ISCSI_LOGGEDIN_TARGETS[SystemName])
        /\ UNCHANGED <<registries, ISCSIADM_SEMIS, UDEV_SEMIS>>
        /\ UNCHANGED elsewhere

LogoutRetries == PollRetries(LOGOUT_RETRY_COUNT, ISCSIADM_RETRY_INTERVAL, 0)

\* line 176: with _ISCSIADM_SEMIS[self.system.name]; line 177: poll's first
\* while test
LogoutAcquire(t) ==
    /\ pc[t] = "logout_acquire"
    /\ ISCSIADM_SEMIS[SystemName] > 0
    /\ IF PollContinues(0, LogoutRetries, 0, PollTimeout(0))
       THEN /\ SemAcquire(t)
            /\ pc' = [pc EXCEPT ![t] = "logout_cmd"]
            /\ loc' = [loc EXCEPT ![t].permits = 1]
       ELSE /\ Done(t, loc[t], "EnvironmentError")
            /\ UNCHANGED ISCSIADM_SEMIS
    /\ UNCHANGED <<registries, UDEV_SEMIS, call, calls>>
    /\ UNCHANGED elsewhere

\* the logout command returns (lines 180-188); after a failed attempt poll
\* sleeps and tests its while condition again, and when that fails the for
\* loop's else clause raises (lines 189-192)
LogoutCmd(t) ==
    /\ pc[t] = "logout_cmd"
    /\ \E ret \in RetCodes :
         LET l == Busy(loc[t], ret) IN
         IF ret = 0
         THEN /\ ISCSI_LOGGEDIN_TARGETS' =
                   [ISCSI_LOGGEDIN_TARGETS EXCEPT ![SystemName] =
                       remove_iscsi_loggedin_target_using_iqn(
                           @, call[t].ip, call[t].iqn)]
              /\ SemRelease(t)
              /\ Done(t, LoopLeft(l), "returned")
         ELSE \E out \in LogoutOutputs :
              IF LogoutAlreadyLoggedOut(ret, out)
              THEN /\ SemRelease(t)
                   /\ Done(t, [LoopLeft(l) EXCEPT !.benign = TRUE,
                                                  !.status = ret,
                                                  !.gone = SaysGone(out)],
                           "returned")
                   /\ UNCHANGED ISCSI_LOGGEDIN_TARGETS
              ELSE \E d \in Durations :
                   LET l2 == [AfterSleep(AfterCmd(l, d),
                                         ISCSIADM_RETRY_INTERVAL)
                                EXCEPT !.gone = SaysGone(out)]
                   IN  IF PollContinues(l2.current, LogoutRetries,
                                        l2.elapsed, PollTimeout(0))
                       THEN /\ pc' = pc
                            /\ loc' = [loc EXCEPT ![t] = l2]
                            /\ UNCHANGED <<ISCSI_LOGGEDIN_TARGETS,
                                           ISCSIADM_SEMIS>>
                       ELSE /\ SemRelease(t)
                            /\ Done(t, l2, "EnvironmentError")
                            /\ UNCHANGED ISCSI_LOGGEDIN_TARGETS
    /\ UNCHANGED <<DISCOVERED_TARGETS, hist, UDEV_SEMIS, call, calls>>
    /\ UNCHANGED elsewhere

(***************************************************************************)
(* ISCSIInitiator.delete(iqn, ip)                                          *)
(***************************************************************************)
\* outputs of the delete command the environment may produce
DeleteOutputs ==
    { <<"iscsiadm: initiator reported error">>,
      <<"iscsiadm: ", "No records found">> }

\* lines 945-948
DeleteSatisfied(ret, output) ==
    \/ ret = 0
    \/ ret = 21
    \/ Contains(output, "No records found")

\* variant: the loop stops at the first target with the given iqn
SkipToFirstOnly(copy, iqn) ==
    LET found == {i \in DOMAIN copy : copy[i].iqn = iqn} IN
    IF found = {} THEN <<>>
    ELSE <<copy[CHOOSE i \in found : \A j \in found : i <= j]>>

\* lines 961-962: the part of a copied list from its first target with the
\* given iqn on; the loop visits every such target
SkipTo(copy, iqn) ==
    LET found == {i \in DOMAIN copy : copy[i].iqn = iqn} IN
    IF found = {} THEN <<>>
    ELSE SubSeq(copy, CHOOSE i \in found : \A j \in found : i <= j,
                Len(copy))

CallDelete(t) ==
    \E iqn \in IQNs, ip \in PortalArgs :
        /\ Invoke(t, [NoCall EXCEPT !.op = "delete", !.iqn = iqn, !.ip = ip],
                  "delete_acquire", DISCOVERED_TARGETS[SystemName])
        /\ UNCHANGED <<registries, ISCSIADM_SEMIS, UDEV_SEMIS>>
        /\ UNCHANGED elsewhere

DeleteRetries == PollRetries(DELETE_RETRY_COUNT, ISCSIADM_RETRY_INTERVAL, 0)

\* line 941: with _ISCSIADM_SEMIS[self.system.name]; line 942: poll's first
\* while test
DeleteAcquire(t) ==
    /\ pc[t] = "delete_acquire"
    /\ ISCSIADM_SEMIS[SystemName] > 0
    /\ IF PollContinues(0, DeleteRetries, 0, PollTimeout(0))
       THEN /\ SemAcquire(t)
            /\ pc' = [pc EXCEPT ![t] = "delete_cmd"]
            /\ loc' = [loc EXCEPT ![t].permits = 1]
       ELSE /\ Done(t, loc[t], "EnvironmentError")
            /\ UNCHANGED ISCSIADM_SEMIS
    /\ UNCHANGED <<registries, UDEV_SEMIS, call, calls>>
    /\ UNCHANGED elsewhere

\* the delete command returns (lines 945-952); on break the with block is
\* left and the book-keeping follows; after a failed attempt poll sleeps and
\* tests its while condition again, and when that fails the for loop's else
\* clause raises (lines 953-956)
DeleteCmd(t) ==
    /\ pc[t] = "delete_cmd"
    /\ \E ret \in RetCodes, out \in DeleteOutputs :
         LET l == Busy(loc[t], ret) IN
         IF DeleteSatisfied(ret, out)
         THEN /\ SemRelease(t)
              /\ pc' = [pc EXCEPT ![t] = "delete_959"]
              /\ loc' = [loc EXCEPT ![t] =
                           [LoopLeft(l) EXCEPT !.permits = 0,
                                               !.benign = (ret # 0)]]
         ELSE \E d \in Durations :
              LET l2 == AfterSleep(AfterCmd(l, d), ISCSIADM_RETRY_INTERVAL)
              IN  IF PollContinues(l2.current, DeleteRetries,
                                   l2.elapsed, PollTimeout(0))
                  THEN /\ pc' = pc
                       /\ loc' = [loc EXCEPT ![t] = l2]
                       /\ UNCHANGED ISCSIADM_SEMIS
                  ELSE /\ SemRelease(t)
                       /\ Done(t, l2, "EnvironmentError")
    /\ UNCHANGED <<registries, UDEV_SEMIS, call, calls>>
    /\ UNCHANGED elsewhere

\* lines 959-961: the test and the copy DISCOVERED_TARGETS[name][:]
Delete959(t) ==
    /\ pc[t] = "delete_959"
    /\ LET entry == DISCOVERED_TARGETS[SystemName]
           todo == SkipTo(entry.list, call[t].iqn)
       IN  IF entry.present /\ entry.list # <<>> /\ todo # <<>>
           THEN /\ pc' = [pc EXCEPT ![t] = "delete_963"]
                /\ loc' = [loc EXCEPT ![t].snap = todo]
           ELSE Done(t, loc[t], "returned")
    /\ UNCHANGED <<registries, ISCSIADM_SEMIS, UDEV_SEMIS, call, calls>>
    /\ UNCHANGED elsewhere

\* line 963: DISCOVERED_TARGETS[name].remove(target) for the next target of
\* the copy whose iqn matches; the loop ends when no such target is left
Delete963(t) ==
    /\ pc[t] = "delete_963"
    /\ LET entry == DISCOVERED_TARGETS[SystemName]
           target == Head(loc[t].snap)
           todo == SkipTo(Tail(loc[t].snap), call[t].iqn)
       IN  IF ~entry.present
           THEN /\ Done(t, loc[t], "KeyError")
                /\ UNCHANGED DISCOVERED_TARGETS
           ELSE IF target \notin SeqToSet(entry.list)
           THEN /\ Done(t, loc[t], "ValueError")
                /\ UNCHANGED DISCOVERED_TARGETS
           ELSE /\ DISCOVERED_TARGETS' =
                     [DISCOVERED_TARGETS EXCEPT ![SystemName].list =
                         ListRemove(@, target)]
                /\ IF todo = <<>>
                   THEN Done(t, [loc[t] EXCEPT !.snap = <<>>], "returned")
                   ELSE /\ pc' = pc
                        /\ loc' = [loc EXCEPT ![t].snap = todo]
    /\ UNCHANGED <<ISCSI_LOGGEDIN_TARGETS, hist, ISCSIADM_SEMIS,
                   UDEV_SEMIS, call, calls>>
    /\ UNCHANGED elsewhere

(***************************************************************************)
(* ISCSIInitiator.discover(ip, iqn, port, iface_name, timeout)             *)
(***************************************************************************)
\* one line of `iscsiadm -m discovery` output, "<ip>:<port>,<tag> <iqn>":
\* lead tells whether it starts with a digit, nl whether a newline ends it
Line(lead, ip, port, iqn, nl) ==
    [lead |-> lead, ip |-> ip, port |-> port, iqn |-> iqn, nl |-> nl]

PortalLine(ip, iqn) == Line("digit", ip, DEFAULT_PORT, iqn, TRUE)

\* outputs of the discovery command the environment may produce
DiscoveryOutputs ==
    { <<>>,
      <<PortalLine("10.0.0.1", "iqn.a")>>,
      <<PortalLine("10.0.0.1", "iqn.a"), PortalLine("10.0.0.2", "iqn.b")>>,
      <<PortalLine("10.0.0.1", "iqn.a"), PortalLine("10.0.0.2", "iqn.a"),
        PortalLine("10.0.0.1", "iqn.c")>>,
      <<PortalLine("10.0.0.1", "iqn.a"),
        Line("digit", "10.0.0.2", DEFAULT_PORT, "iqn.b", FALSE)>>,
      <<Line("other", "[fe80::1]", DEFAULT_PORT, "iqn.a", TRUE),
        Line("digit", "10.0.0.2", 3261, "iqn.b", TRUE)>>,
      <<PortalLine("10.0.0.1", "iqn.a"),
        PortalLine("10.0.0.2", "iqn.z:iqn.b")>> }

DiscoveryRets == {0, 1}

\* ':' + unicode(port) matches wherever the port's digits start the line's
\* port, so 3260 also matches 32600..32609
PortPatternMatches(linePort, port) ==
    (linePort = port) \/ (linePort \div 10 = port)

\* group 2 of '(^\d.*):3260.*(iqn.*)': the greedy '.*' before it leaves the
\* text from the LAST "iqn" of the line on
LastIqn(text) ==
    IF text = "iqn.z:iqn.b" THEN "iqn.b" ELSE text

\* _parse_discovery_result(result, port), lines 101-122: the keys of
\* ip_iqn_dict; the value stored under key (ip, iqn) is iqn
parse_discovery_result(result, port) ==
    { [ip |-> result[i].ip, iqn |-> LastIqn(result[i].iqn)] :
        i \in { j \in DOMAIN result :
                  /\ result[j].nl
                  /\ result[j].lead = "digit"
                  /\ PortPatternMatches(result[j].port, port) } }

\* _is_iqn_subset_of_discovered_iqns(iqns, ip_iqn_dict.values()), line 98
is_iqn_subset_of_discovered_iqns(iqns, ip_iqn_dict) ==
    iqns \subseteq { item.iqn : item \in ip_iqn_dict }

\* lines 749-750: the items of ip_iqn_dict that are registered
DiscoverItems(iqns, ip_iqn_dict) ==
    { item \in ip_iqn_dict : item.iqn \in iqns }

\* the address discover() is pointed at; it only goes into the command
DiscoveryPortal == "10.0.0.1"

DiscoverRetries ==
    PollRetries(DISCOVERY_RETRY_COUNT, ISCSIADM_RETRY_INTERVAL, 0)

\* lines 723-727: start_time is taken, the generator made and its first
\* while test run (0 < 5 retries, no time elapsed: the first command is
\* started); no semaphore is taken
CallDiscover(t) ==
    \E ip \in {DiscoveryPortal}, iqns \in {{"iqn.a"}, {"iqn.a", "iqn.b"}},
       timeout \in {DISCOVERY_TIMEOUT, ShortDiscoveryTimeout} :
        /\ Invoke(t, [NoCall EXCEPT !.op = "discover", !.ip = ip,
                                    !.iqns = iqns, !.timeout = timeout],
                  "discover_cmd", DISCOVERED_TARGETS[SystemName])
        /\ UNCHANGED <<registries, ISCSIADM_SEMIS, UDEV_SEMIS>>
        /\ UNCHANGED elsewhere

\* poll sleeps and tests its while condition again; when that fails the
\* for loop's else clause raises (lines 771-774)
DiscoverAgain(t, l) ==
    LET l2 == AfterSleep(l, ISCSIADM_RETRY_INTERVAL) IN
    IF PollContinues(l2.current, DiscoverRetries, l2.elapsed, PollTimeout(0))
    THEN /\ pc' = pc
         /\ loc' = [loc EXCEPT ![t] = l2]
    ELSE Done(t, l2, "EnvironmentError")

\* lines 766-770 after an attempt that did not find every iqn: past the
\* timeout the loop is left by break, which skips the else clause
DiscoverRetry(t, l) ==
    IF l.elapsed > call[t].timeout
    THEN Done(t, LoopLeft(l), "returned")
    ELSE DiscoverAgain(t, l)

\* the discovery command returns; lines 727-748
DiscoverCmd(t) ==
    /\ pc[t] = "discover_cmd"
    /\ \E status \in DiscoveryRets, result \in DiscoveryOutputs,
          d \in Durations :
         LET l == AfterCmd(loc[t], d)
             ip_iqn_dict == parse_discovery_result(result, DEFAULT_PORT)
         IN  IF status = 0 /\ result # <<>>
             THEN IF ip_iqn_dict = {}
                  THEN \* line 742: continue, without the timeout test
                       DiscoverAgain(t, l)
                  ELSE IF is_iqn_subset_of_discovered_iqns(call[t].iqns,
                                                           ip_iqn_dict)
                  THEN /\ pc' = [pc EXCEPT ![t] = "discover_754"]
                       /\ loc' = [loc EXCEPT ![t] =
                                    [LoopLeft(l) EXCEPT !.matched = TRUE,
                                              !.dict = ip_iqn_dict,
                                              !.pend = DiscoverItems(
                                                  call[t].iqns, ip_iqn_dict)]]
                  ELSE DiscoverRetry(t, l)
             ELSE DiscoverRetry(t, l)
    /\ UNCHANGED <<registries, ISCSIADM_SEMIS, UDEV_SEMIS, call, calls>>
    /\ UNCHANGED elsewhere

\* the target built at lines 751-753 for a parsed item
DiscoverTarget(t, item) ==
    IscsiTarget(item.ip, call[t].port, item.iqn, call[t].iface)

\* the loop of line 749 has handled the item held in snap
DiscoverItemDone(t, item) ==
    LET l == [loc[t] EXCEPT !.pend = @ \ {item}, !.snap = <<>>] IN
    IF l.pend = {}
    THEN Done(t, l, "returned")
    ELSE /\ pc' = [pc EXCEPT ![t] = "discover_754"]
         /\ loc' = [loc EXCEPT ![t] = l]

\* lines 749-760: the next item of the dictionary (in no fixed order) and
\* the tests of lines 754 and 760
Discover754(t) ==
    /\ pc[t] = "discover_754"
    /\ \E item \in loc[t].pend :
         LET entry == DISCOVERED_TARGETS[SystemName] IN
         IF ~entry.present
         THEN /\ pc' = [pc EXCEPT ![t] = "discover_755"]
              /\ loc' = [loc EXCEPT ![t].snap = <<item>>]
         ELSE IF DiscoverTarget(t, item) \notin SeqToSet(entry.list)
         THEN /\ pc' = [pc EXCEPT ![t] = "discover_761"]
              /\ loc' = [loc EXCEPT ![t].snap = <<item>>]
         ELSE DiscoverItemDone(t, item)
    /\ UNCHANGED <<registries, ISCSIADM_SEMIS, UDEV_SEMIS, call, calls>>
    /\ UNCHANGED elsewhere

\* line 755: DISCOVERED_TARGETS[self.system.name] = []
Discover755(t) ==
    /\ pc[t] = "discover_755"
    /\ DISCOVERED_TARGETS' =
         [DISCOVERED_TARGETS EXCEPT ![SystemName] = EmptyEntry]
    /\ pc' = [pc EXCEPT ![t] = "discover_757"]
    /\ UNCHANGED <<ISCSI_LOGGEDIN_TARGETS, hist, ISCSIADM_SEMIS,
                   UDEV_SEMIS, call, loc, calls>>
    /\ UNCHANGED elsewhere

\* DISCOVERED_TARGETS[self.system.name].append(target)
DiscoveredAppend(t, target) ==
    /\ DISCOVERED_TARGETS' =
         [DISCOVERED_TARGETS EXCEPT ![SystemName].list = Append(@, target)]
    /\ hist' = [hist EXCEPT !.everDiscovered = @ \cup {target}]

\* line 757
Discover757(t) ==
    /\ pc[t] = "discover_757"
    /\ LET item == Head(loc[t].snap) IN
       IF DISCOVERED_TARGETS[SystemName].present
       THEN /\ DiscoveredAppend(t, DiscoverTarget(t, item))
            /\ DiscoverItemDone(t, item)
       ELSE /\ Done(t, loc[t], "KeyError")
            /\ UNCHANGED <<DISCOVERED_TARGETS, hist>>
    /\ UNCHANGED <<ISCSI_LOGGEDIN_TARGETS, ISCSIADM_SEMIS, UDEV_SEMIS,
                   call, calls>>
    /\ UNCHANGED elsewhere

\* line 761
Discover761(t) ==
    /\ pc[t] = "discover_761"
    /\ LET item == Head(loc[t].snap) IN
       IF DISCOVERED_TARGETS[SystemName].present
       THEN /\ DiscoveredAppend(t, DiscoverTarget(t, item))
            /\ DiscoverItemDone(t, item)
       ELSE /\ Done(t, loc[t], "KeyError")
            /\ UNCHANGED <<DISCOVERED_TARGETS, hist>>
    /\ UNCHANGED <<ISCSI_LOGGEDIN_TARGETS, ISCSIADM_SEMIS, UDEV_SEMIS,
                   call, calls>>
    /\ UNCHANGED elsewhere

(***************************************************************************)
(* ISCSIInitiator.manually_add_target_to_db(ip, port, iqn, iface_name),    *)
(* with _is_target_discovery_needed and list_all_discovered_targets.       *)
(***************************************************************************)
\* `iscsiadm -m node -P 1` output: one block per "Target: " heading, each a
\* target name followed by "Portal: ", "Iface Name: " or other lines
Block(target, lines) == [target |-> target, lines |-> lines]

PortalOf(ip, port) == [kind |-> "Portal", ip |-> ip, port |-> port,
                       name |-> None]

IfaceOf(name) == [kind |-> "Iface", ip |-> None, port |-> 0, name |-> name]

OtherLine == [kind |-> "other", ip |-> None, port |-> 0, name |-> None]

OtherIp(ip) == CHOOSE x \in IPs : x # ip

\* listings the environment may produce for a node just added
NodeListings(ip, port, iqn) ==
    { <<>>,
      <<Block(iqn, <<PortalOf(ip, port), IfaceOf("default")>>)>>,
      <<Block(iqn, <<PortalOf(ip, port), IfaceOf("iface0")>>)>>,
      <<Block(iqn, <<PortalOf(OtherIp(ip), port), IfaceOf("iface0"),
                     IfaceOf("default"), PortalOf(ip, port),
                     IfaceOf("iface0")>>)>>,
      <<Block(iqn, <<PortalOf(ip, port)>>)>>,
      <<Block(iqn, <<PortalOf(ip, port), IfaceOf("default"), OtherLine>>)>> }

IsPortalLine(line) == line.kind = "Portal"

IsIfaceLine(line) == line.kind = "Iface"

\* lines 650-673: error is set when a block holds a line that is neither a
\* portal nor an iface line (ValueError); otherwise dict maps each target
\* name to its [portals, ifaces]
list_all_discovered_targets(out) ==
    [error |-> \E i \in DOMAIN out : \E j \in DOMAIN out[i].lines :
                  out[i].lines[j].kind = "other",
     dict |-> [target \in {out[i].target : i \in DOMAIN out} |->
                 LET last == CHOOSE i \in DOMAIN out :
                               /\ out[i].target = target
                               /\ \A k \in DOMAIN out :
                                     out[k].target = target => k <= i
                 IN  [portals |-> SelectSeq(out[last].lines, IsPortalLine),
                      ifaces |-> SelectSeq(out[last].lines, IsIfaceLine)]]]

\* list.index(x): position of the first occurrence
IndexOf(s, x) == CHOOSE i \in DOMAIN s : s[i] = x /\ \A k \in 1..(i-1) : s[k] # x

\* _is_target_discovery_needed, lines 611-643, up to the registry update:
\* "match" (line 626), "needed" (discovery_needed = True) or the exception
\* the lookups raise
is_target_discovery_needed(discovered_targets, ip, port, iqn, iface) ==
    IF discovered_targets.error THEN "ValueError"
    ELSE IF iqn \notin DOMAIN discovered_targets.dict THEN "needed"
    ELSE LET dt == discovered_targets.dict[iqn]
             ip_portal == PortalOf(ip, port)
         IN  IF ip_portal \notin SeqToSet(dt.portals) THEN "needed"
             ELSE LET idx == IndexOf(dt.portals, ip_portal) IN
                  IF idx > Len(dt.ifaces) THEN "IndexError"
                  ELSE IF dt.ifaces[idx].name = iface THEN "match"
                  ELSE "needed"

ManualTarget(t) ==
    IscsiTarget(call[t].ip, call[t].port, call[t].iqn, call[t].iface)

CallManualAdd(t) ==
    \E iqn \in IQNs, ip \in IPs :
        /\ Invoke(t, [NoCall EXCEPT !.op = "manually_add_target_to_db",
                                    !.iqn = iqn, !.ip = ip], "manual_cmd",
                  DISCOVERED_TARGETS[SystemName])
        /\ UNCHANGED <<registries, ISCSIADM_SEMIS, UDEV_SEMIS>>
        /\ UNCHANGED elsewhere

\* line 568: self.system.run_cmd_check(cmd_str)
ManualCmd(t) ==
    /\ pc[t] = "manual_cmd"
    /\ \E ret \in {0, 1} :
         LET l == loc[t] IN
         IF ret # 0
         THEN Done(t, l, "EnvironmentError")
         ELSE /\ pc' = [pc EXCEPT ![t] = "manual_list_acquire"]
              /\ loc' = [loc EXCEPT ![t] = l]
    /\ UNCHANGED <<registries, ISCSIADM_SEMIS, UDEV_SEMIS, call, calls>>
    /\ UNCHANGED elsewhere

\* line 646
ManualListAcquire(t) ==
    /\ pc[t] = "manual_list_acquire"
    /\ SemAcquire(t)
    /\ pc' = [pc EXCEPT ![t] = "manual_list_cmd"]
    /\ loc' = [loc EXCEPT ![t].permits = 1]
    /\ UNCHANGED <<registries, UDEV_SEMIS, call, calls>>
    /\ UNCHANGED elsewhere

\* lines 647-649 and 611-643, then 570-572
ManualListCmd(t) ==
    /\ pc[t] = "manual_list_cmd"
    /\ SemRelease(t)
    /\ \E ret \in {0, 1},
          out \in NodeListings(call[t].ip, call[t].port, call[t].iqn) :
         LET l == [loc[t] EXCEPT !.permits = 0]
             needed == IF ret # 0 THEN "needed"
                       ELSE is_target_discovery_needed(
                                list_all_discovered_targets(out),
                                call[t].ip, call[t].port, call[t].iqn,
                                call[t].iface)
             entry == DISCOVERED_TARGETS[SystemName]
         IN  IF needed = "needed" THEN Done(t, l, "EnvironmentError")
             ELSE IF needed # "match" THEN Done(t, l, needed)
             ELSE IF ~entry.present
             THEN /\ pc' = [pc EXCEPT ![t] = "manual_630"]
                  /\ loc' = [loc EXCEPT ![t] = l]
             ELSE IF ManualTarget(t) \notin SeqToSet(entry.list)
             THEN /\ pc' = [pc EXCEPT ![t] = "manual_634"]
                  /\ loc' = [loc EXCEPT ![t] = l]
             ELSE Done(t, l, "returned")
    /\ UNCHANGED <<registries, UDEV_SEMIS, call, calls>>
    /\ UNCHANGED elsewhere

\* line 630: DISCOVERED_TARGETS[self.system.name] = []
Manual630(t) ==
    /\ pc[t] = "manual_630"
    /\ DISCOVERED_TARGETS' =
         [DISCOVERED_TARGETS EXCEPT ![SystemName] = EmptyEntry]
    /\ pc' = [pc EXCEPT ![t] = "manual_631"]
    /\ UNCHANGED <<ISCSI_LOGGEDIN_TARGETS, hist, ISCSIADM_SEMIS,
                   UDEV_SEMIS, call, loc, calls>>
    /\ UNCHANGED elsewhere

\* line 631
Manual631(t) ==
    /\ pc[t] = "manual_631"
    /\ IF DISCOVERED_TARGETS[SystemName].present
       THEN /\ DiscoveredAppend(t, ManualTarget(t))
            /\ Done(t, loc[t], "returned")
       ELSE /\ Done(t, loc[t], "KeyError")
            /\ UNCHANGED <<DISCOVERED_TARGETS, hist>>
    /\ UNCHANGED <<ISCSI_LOGGEDIN_TARGETS, ISCSIADM_SEMIS, UDEV_SEMIS,
                   call, calls>>
    /\ UNCHANGED elsewhere

\* line 634
Manual634(t) ==
    /\ pc[t] = "manual_634"
    /\ IF DISCOVERED_TARGETS[SystemName].present
       THEN /\ DiscoveredAppend(t, ManualTarget(t))
            /\ Done(t, loc[t], "returned")
       ELSE /\ Done(t, loc[t], "KeyError")
            /\ UNCHANGED <<DISCOVERED_TARGETS, hist>>
    /\ UNCHANGED <<ISCSI_LOGGEDIN_TARGETS, ISCSIADM_SEMIS, UDEV_SEMIS,
                   call, calls>>
    /\ UNCHANGED elsewhere

(***************************************************************************)
(* ISCSIInitiator.login_all_targets(udev_timeout, iface_name) on a host    *)
(* whose max_iscsi_worker is 1: the task runner runs the login tasks one   *)
(* after the other, attempts every task, and raises afterwards if any      *)
(* task raised.                                                            *)
(***************************************************************************)
CallLoginAll(t) ==
    /\ Invoke(t, [NoCall EXCEPT !.op = "login_all_targets"], "lat_870",
              ISCSI_LOGGEDIN_TARGETS[SystemName])
    /\ UNCHANGED <<registries, ISCSIADM_SEMIS, UDEV_SEMIS>>
    /\ UNCHANGED elsewhere

\* lines 870-883: DISCOVERED_TARGETS[self.system.name] is read (KeyError
\* without an entry) and one login task is queued per target in it (the
\* list `targets` of lines 870-871, filtered by iface_name, is only counted
\* for the log; the loop of line 881 runs over the whole registry list)
Lat870(t) ==
    /\ pc[t] = "lat_870"
    /\ IF DISCOVERED_TARGETS[SystemName].present
       THEN /\ pc' = [pc EXCEPT ![t] = "lat_task"]
            /\ loc' = [loc EXCEPT ![t].snap =
                          DISCOVERED_TARGETS[SystemName].list]
       ELSE Done(t, loc[t], "KeyError")
    /\ UNCHANGED <<registries, ISCSIADM_SEMIS, UDEV_SEMIS, call, calls>>
    /\ UNCHANGED elsewhere

\* Parallel(...).run_threads() with one worker: start the next task, or,
\* when none is left, raise if a task failed and go on otherwise
LatTask(t) ==
    /\ pc[t] = "lat_task"
    /\ IF loc[t].snap # <<>>
       THEN /\ pc' = [pc EXCEPT ![t] = "login_acquire"]
            /\ UNCHANGED loc
       ELSE IF loc[t].failed
       THEN Done(t, loc[t], "ParallelError")
       ELSE /\ pc' = [pc EXCEPT ![t] = "lat_udev_acquire"]
            /\ UNCHANGED loc
    /\ UNCHANGED <<registries, ISCSIADM_SEMIS, UDEV_SEMIS, call, calls>>
    /\ UNCHANGED elsewhere

\* line 890: with _UDEV_SEMIS[self.system.name]
LatUdevAcquire(t) ==
    /\ pc[t] = "lat_udev_acquire"
    /\ UDEV_SEMIS[SystemName] > 0
    /\ UDEV_SEMIS' = [UDEV_SEMIS EXCEPT ![SystemName] = @ - 1]
    /\ pc' = [pc EXCEPT ![t] = "lat_udev_cmd"]
    /\ UNCHANGED <<registries, ISCSIADM_SEMIS, call, loc, calls>>
    /\ UNCHANGED elsewhere

\* line 891: self.system.run_cmd_check(cmd)
LatUdevCmd(t) ==
    /\ pc[t] = "lat_udev_cmd"
    /\ UDEV_SEMIS' = [UDEV_SEMIS EXCEPT ![SystemName] = @ + 1]
    /\ \E ret \in {0, 1} :
         Done(t, loc[t], IF ret = 0 THEN "returned" ELSE "EnvironmentError")
    /\ UNCHANGED <<registries, ISCSIADM_SEMIS, call, calls>>
    /\ UNCHANGED elsewhere

(***************************************************************************)
(* Tearing down: ISCSIInitiator.force_logout_all(iface_name),              *)
(* destroy_iface(iface_name) and logout_all_targets(), on a host whose     *)
(* registries were filled by discover and login calls that name an         *)
(* interface.                                                              *)
(***************************************************************************)
Ifaces == {DefaultIface, "iface0"}

\* outputs of `iscsiadm -m iface -I <name> -o delete`
DestroyOutputs ==
    { <<"iscsiadm: initiator reported error">>,
      <<"iscsiadm: ", "Could not delete iface", " iface0">>,
      <<"iscsiadm: ", "Could not read iface info", " for iface0">> }

\* the truth value Python gives a string
Truthy(str) == str # ""

\* lines 1028-1029: `in` binds tighter than `or`, so the test is
\* "No matching sessions found" or ("Could not read ..." in output)
ForceLogoutGone(output) ==
    \/ Truthy("No matching sessions found")
    \/ Contains(output, "Could not read iface info for")

\* lines 990-991, the same way
DestroyGone(out) ==
    \/ Truthy("Could not delete iface")
    \/ Contains(out, "Could not read iface info")

\* lines 212-214: every target of the interface is removed from the list
remove_target_from_iscsi_loggedin_targets(list, iface_name) ==
    LET Kept(target) == target.iface # iface_name
    IN  SelectSeq(list, Kept)

\* discover(ip, iqn, iface_name=iface)
CallDiscoverIface(t) ==
    \E iface \in Ifaces :
        /\ Invoke(t, [NoCall EXCEPT !.op = "discover",
                                    !.ip = DiscoveryPortal,
                                    !.iqns = {"iqn.a", "iqn.b"},
                                    !.iface = iface,
                                    !.timeout = ShortDiscoveryTimeout],
                  "discover_cmd", DISCOVERED_TARGETS[SystemName])
        /\ UNCHANGED <<registries, ISCSIADM_SEMIS, UDEV_SEMIS>>
        /\ UNCHANGED elsewhere

\* login(iqn, ip, iface_name=iface, timeout=1)
CallLoginIface(t) ==
    \E iqn \in IQNs, iface \in Ifaces :
        /\ Invoke(t, [NoCall EXCEPT !.op = "login", !.iqn = iqn,
                                    !.ip = "10.0.0.1", !.iface = iface,
                                    !.timeout = 1],
                  "login_acquire", ISCSI_LOGGEDIN_TARGETS[SystemName])
        /\ UNCHANGED <<registries, ISCSIADM_SEMIS, UDEV_SEMIS>>
        /\ UNCHANGED elsewhere

\* login_all_targets(iface_name=iface)
CallLoginAllIface(t) ==
    \E iface \in Ifaces :
        /\ Invoke(t, [NoCall EXCEPT !.op = "login_all_targets",
                                    !.iface = iface],
                  "lat_870", ISCSI_LOGGEDIN_TARGETS[SystemName])
        /\ UNCHANGED <<registries, ISCSIADM_SEMIS, UDEV_SEMIS>>
        /\ UNCHANGED elsewhere

\* force_logout_all(iface_name); None stands for an empty iface_name
CallForceLogoutAll(t) ==
    \E iface \in Ifaces \cup {None} :
        /\ Invoke(t, [NoCall EXCEPT !.op = "force_logout_all",
                                    !.iface = iface],
                  "fla_acquire", ISCSI_LOGGEDIN_TARGETS[SystemName])
        /\ UNCHANGED <<registries, ISCSIADM_SEMIS, UDEV_SEMIS>>
        /\ UNCHANGED elsewhere

\* destroy_iface(iface_name), which starts with line 974:
\* self.force_logout_all(iface_name=iface_name)
CallDestroyIface(t) ==
    \E iface \in Ifaces :
        /\ Invoke(t, [NoCall EXCEPT !.op = "destroy_iface",
                                    !.iface = iface],
                  "fla_acquire", DISCOVERED_TARGETS[SystemName])
        /\ UNCHANGED <<registries, ISCSIADM_SEMIS, UDEV_SEMIS>>
        /\ UNCHANGED elsewhere

\* line 1021: with _ISCSIADM_SEMIS[self.system.name]
FlaAcquire(t) ==
    /\ pc[t] = "fla_acquire"
    /\ SemAcquire(t)
    /\ pc' = [pc EXCEPT ![t] = "fla_cmd"]
    /\ loc' = [loc EXCEPT ![t].permits = 1]
    /\ UNCHANGED <<registries, UDEV_SEMIS, call, calls>>
    /\ UNCHANGED elsewhere

\* force_logout_all ends: its outcome goes to its caller, which is
\* destroy_iface when that called it
FlaOutcome(t, l, res) ==
    IF call[t].op = "destroy_iface" /\ res = "returned"
    THEN /\ pc' = [pc EXCEPT ![t] = "di_acquire"]
         /\ loc' = [loc EXCEPT ![t] = [l EXCEPT !.permits = 0]]
    ELSE Done(t, l, res)

\* lines 1022-1040: the command returns, the with block is left, and the
\* result is acted on
FlaCmd(t) ==
    /\ pc[t] = "fla_cmd"
    /\ SemRelease(t)
    /\ \E ret \in RetCodes, output \in LogoutOutputs :
         LET l == [loc[t] EXCEPT !.status = ret,
                                 !.gone = (ret # 0) /\ SaysGone(output)]
             entry == ISCSI_LOGGEDIN_TARGETS[SystemName]
         IN  IF ret # 0
             THEN /\ FlaOutcome(t, l, IF ForceLogoutGone(output)
                                      THEN "returned"
                                      ELSE "EnvironmentError")
                  /\ UNCHANGED ISCSI_LOGGEDIN_TARGETS
             ELSE IF call[t].iface # None
             THEN /\ ISCSI_LOGGEDIN_TARGETS' =
                       [ISCSI_LOGGEDIN_TARGETS EXCEPT ![SystemName] =
                          IF entry.present /\ entry.list # <<>>
                          THEN [entry EXCEPT !.list =
                                  remove_target_from_iscsi_loggedin_targets(
                                      @, call[t].iface)]
                          ELSE entry]
                  /\ FlaOutcome(t, l, "returned")
             ELSE IF entry.present
             THEN /\ ISCSI_LOGGEDIN_TARGETS' =
                       [ISCSI_LOGGEDIN_TARGETS EXCEPT ![SystemName] = NoEntry]
                  /\ FlaOutcome(t, l, "returned")
             ELSE /\ FlaOutcome(t, l, "KeyError")
                  /\ UNCHANGED ISCSI_LOGGEDIN_TARGETS
    /\ UNCHANGED <<DISCOVERED_TARGETS, hist, UDEV_SEMIS, call, calls>>
    /\ UNCHANGED elsewhere

\* lines 978-979: while retries > 0, with _ISCSIADM_SEMIS[...]
DiAcquire(t) ==
    /\ pc[t] = "di_acquire"
    /\ SemAcquire(t)
    /\ pc' = [pc EXCEPT ![t] = "di_cmd"]
    /\ loc' = [loc EXCEPT ![t].permits = 1]
    /\ UNCHANGED <<registries, UDEV_SEMIS, call, calls>>
    /\ UNCHANGED elsewhere

\* lines 996-1002: the targets of the interface leave the discovered list
DiRemove(entry, iface_name) ==
    IF entry.present /\ entry.list # <<>>
    THEN LET Kept(target) == target.iface # iface_name
         IN  [entry EXCEPT !.list = SelectSeq(@, Kept)]
    ELSE entry

\* lines 980-995: the delete command returns.  Exit 0 leaves the loop; 6
\* counts a retry down and sleeps, and the loop ends when none is left;
\* any other status returns or raises from inside the loop
DiCmd(t) ==
    /\ pc[t] = "di_cmd"
    /\ SemRelease(t)
    /\ \E ret \in RetCodes, out \in DestroyOutputs :
         LET l == [loc[t] EXCEPT !.status = ret,
                                 !.gone = (ret # 0) /\ SaysGone(out)]
         IN  IF ret = 0
             THEN /\ DISCOVERED_TARGETS' =
                       [DISCOVERED_TARGETS EXCEPT ![SystemName] =
                          DiRemove(@, call[t].iface)]
                  /\ Done(t, l, "returned")
             ELSE IF ret = 6
             THEN IF l.current + 1 < DESTROY_IFACE_RETRIES
                  THEN /\ pc' = [pc EXCEPT ![t] = "di_acquire"]
                       /\ loc' = [loc EXCEPT ![t] =
                                    [l EXCEPT !.current = @ + 1,
                                              !.permits = 0]]
                       /\ UNCHANGED DISCOVERED_TARGETS
                  ELSE /\ DISCOVERED_TARGETS' =
                            [DISCOVERED_TARGETS EXCEPT ![SystemName] =
                               DiRemove(@, call[t].iface)]
                       /\ Done(t, [l EXCEPT !.current = @ + 1], "returned")
             ELSE /\ Done(t, l, IF DestroyGone(out) THEN "returned"
                                ELSE "EnvironmentError")
                  /\ UNCHANGED DISCOVERED_TARGETS
    /\ UNCHANGED <<ISCSI_LOGGEDIN_TARGETS, hist, UDEV_SEMIS, call, calls>>
    /\ UNCHANGED elsewhere

\* logout_all_targets()
CallLogoutAllTargets(t) ==
    /\ Invoke(t, [NoCall EXCEPT !.op = "logout_all_targets"], "lot_419",
              ISCSI_LOGGEDIN_TARGETS[SystemName])
    /\ UNCHANGED <<registries, ISCSIADM_SEMIS, UDEV_SEMIS>>
    /\ UNCHANGED elsewhere

\* lines 419-424: without an entry for the host nothing is done; else the
\* interfaces other than "default" of the targets are collected
Lot419(t) ==
    /\ pc[t] = "lot_419"
    /\ LET entry == ISCSI_LOGGEDIN_TARGETS[SystemName]
           unique_ifaces == {entry.list[i].iface : i \in DOMAIN entry.list}
                               \ {DefaultIface}
       IN  IF ~entry.present
           THEN Done(t, loc[t], "returned")
           ELSE /\ pc' = [pc EXCEPT ![t] =
                            IF unique_ifaces = {} THEN "lot_438"
                            ELSE "lot_iface_acquire"]
                /\ loc' = [loc EXCEPT ![t].pend = unique_ifaces]
    /\ UNCHANGED <<registries, ISCSIADM_SEMIS, UDEV_SEMIS, call, calls>>
    /\ UNCHANGED elsewhere

\* line 431: with _ISCSIADM_SEMIS[self.system.name]
LotIfaceAcquire(t) ==
    /\ pc[t] = "lot_iface_acquire"
    /\ SemAcquire(t)
    /\ pc' = [pc EXCEPT ![t] = "lot_iface_cmd"]
    /\ loc' = [loc EXCEPT ![t].permits = 1]
    /\ UNCHANGED <<registries, UDEV_SEMIS, call, calls>>
    /\ UNCHANGED elsewhere

\* lines 432-436: the blanket logout of one interface returns; after exit
\* 0 the targets of the interface leave the list
LotIfaceCmd(t) ==
    /\ pc[t] = "lot_iface_cmd"
    /\ SemRelease(t)
    /\ \E iface \in loc[t].pend, ret \in RetCodes :
         LET entry == ISCSI_LOGGEDIN_TARGETS[SystemName]
             left == loc[t].pend \ {iface}
         IN  /\ ISCSI_LOGGEDIN_TARGETS' =
                  [ISCSI_LOGGEDIN_TARGETS EXCEPT ![SystemName] =
                     IF ret = 0 /\ entry.present
                     THEN [entry EXCEPT !.list =
                             remove_target_from_iscsi_loggedin_targets(
                                 @, iface)]
                     ELSE entry]
             /\ pc' = [pc EXCEPT ![t] = IF left = {} THEN "lot_438"
                                        ELSE "lot_iface_acquire"]
             /\ loc' = [loc EXCEPT ![t] =
                          [@ EXCEPT !.pend = left, !.status = ret,
                                    !.permits = 0]]
    /\ UNCHANGED <<DISCOVERED_TARGETS, hist, UDEV_SEMIS, call, calls>>
    /\ UNCHANGED elsewhere

\* lines 439-447: one logout task is queued per target still in the list
\* and the host's entry is deleted; with an empty list nothing is done
Lot438(t) ==
    /\ pc[t] = "lot_438"
    /\ LET entry == ISCSI_LOGGEDIN_TARGETS[SystemName]
       IN  IF entry.present /\ entry.list # <<>>
           THEN /\ ISCSI_LOGGEDIN_TARGETS' =
                     [ISCSI_LOGGEDIN_TARGETS EXCEPT ![SystemName] = NoEntry]
                /\ pc' = [pc EXCEPT ![t] = "lot_task"]
                /\ loc' = [loc EXCEPT ![t] =
                             [@ EXCEPT !.snap = entry.list, !.status = -1]]
           ELSE /\ Done(t, loc[t], "returned")
                /\ UNCHANGED ISCSI_LOGGEDIN_TARGETS
    /\ UNCHANGED <<DISCOVERED_TARGETS, hist, ISCSIADM_SEMIS, UDEV_SEMIS,
                   call, calls>>
    /\ UNCHANGED elsewhere

\* Parallel(...).run_threads() with one worker (lines 448-450): the next
\* logout task starts with line 176 of logout, or, when none is left, the
\* runner raises if a task failed and returns otherwise
LotTask(t) ==
    /\ pc[t] = "lot_task"
    /\ IF loc[t].snap # <<>>
       THEN /\ SemAcquire(t)
            /\ pc' = [pc EXCEPT ![t] = "lot_task_cmd"]
            /\ loc' = [loc EXCEPT ![t].permits = 1]
       ELSE /\ Done(t, loc[t], IF loc[t].failed THEN "ParallelError"
                                ELSE "returned")
            /\ UNCHANGED ISCSIADM_SEMIS
    /\ UNCHANGED <<registries, UDEV_SEMIS, call, calls>>
    /\ UNCHANGED elsewhere

\* the task's logout command returns (logout, lines 177-192), for the
\* target at the head of the queue
LotTaskCmd(t) ==
    /\ pc[t] = "lot_task_cmd"
    /\ \E ret \in RetCodes, out \in LogoutOutputs :
         LET target == Head(loc[t].snap)
             l == [loc[t] EXCEPT !.status = ret]
             next == [NoLoc EXCEPT !.snap = Tail(l.snap), !.pre = l.pre,
                                   !.failed = l.failed]
         IN  IF ret = 0 \/ LogoutAlreadyLoggedOut(ret, out)
             THEN /\ ISCSI_LOGGEDIN_TARGETS' =
                       [ISCSI_LOGGEDIN_TARGETS EXCEPT ![SystemName] =
                          IF ret = 0
                          THEN remove_iscsi_loggedin_target_using_iqn(
                                   @, target.ip, target.iqn)
                          ELSE @]
                  /\ SemRelease(t)
                  /\ pc' = [pc EXCEPT ![t] = "lot_task"]
                  /\ loc' = [loc EXCEPT ![t] = next]
             ELSE \E d \in Durations :
                  LET l2 == AfterSleep(AfterCmd(l, d),
                                       ISCSIADM_RETRY_INTERVAL)
                  IN  IF PollContinues(l2.current, LogoutRetries,
                                       l2.elapsed, PollTimeout(0))
                      THEN /\ pc' = pc
                           /\ loc' = [loc EXCEPT ![t] = l2]
                           /\ UNCHANGED <<ISCSI_LOGGEDIN_TARGETS,
                                          ISCSIADM_SEMIS>>
                      ELSE /\ SemRelease(t)
                           /\ pc' = [pc EXCEPT ![t] = "lot_task"]
                           /\ loc' = [loc EXCEPT ![t] =
                                        [next EXCEPT !.failed = TRUE]]
                           /\ UNCHANGED ISCSI_LOGGEDIN_TARGETS
    /\ UNCHANGED <<DISCOVERED_TARGETS, hist, UDEV_SEMIS, call, calls>>
    /\ UNCHANGED elsewhere

(***************************************************************************)
(* The threads run concurrently (Spec) or one call at a time (SeqSpec).    *)
(***************************************************************************)
Step(t) ==
    \/ CallLogin(t) \/ LoginAcquire(t) \/ LoginCmd(t)
    \/ Login842(t) \/ Login843(t) \/ Login845(t) \/ Login846(t)
    \/ CallLogout(t) \/ LogoutAcquire(t) \/ LogoutCmd(t)
    \/ CallDelete(t) \/ DeleteAcquire(t) \/ DeleteCmd(t)
    \/ Delete959(t) \/ Delete963(t)
    \/ CallDiscover(t) \/ DiscoverCmd(t)
    \/ Discover754(t) \/ Discover755(t) \/ Discover757(t) \/ Discover761(t)
    \/ CallManualAdd(t) \/ ManualCmd(t) \/ ManualListAcquire(t)
    \/ ManualListCmd(t) \/ Manual630(t) \/ Manual631(t) \/ Manual634(t)
    \/ CallLoginAll(t) \/ Lat870(t) \/ LatTask(t) \/ LatUdevAcquire(t)
    \/ LatUdevCmd(t)
    \/ Finish(t)

\* "done" is the instant a call returns or raises: the caller takes the
\* outcome before any other thread moves on
NoOutcomePending(t) == \A u \in Threads \ {t} : pc[u] # "done"

Next == \E t \in Threads : NoOutcomePending(t) /\ Step(t)

Spec == Init /\ [][Next]_vars

\* one caller making its calls one after the other
Caller == CHOOSE t \in Threads : \A u \in Threads : t <= u

SeqNext == Step(Caller)

SeqSpec == SeqInit /\ [][SeqNext]_vars

\* one caller that fills the registries and tears down
TeardownStep(t) ==
    \/ CallDiscoverIface(t) \/ DiscoverCmd(t)
    \/ Discover754(t) \/ Discover755(t) \/ Discover757(t) \/ Discover761(t)
    \/ CallLoginIface(t) \/ LoginAcquire(t) \/ LoginCmd(t)
    \/ Login842(t) \/ Login843(t) \/ Login845(t) \/ Login846(t)
    \/ CallLoginAllIface(t) \/ Lat870(t) \/ LatTask(t)
    \/ LatUdevAcquire(t) \/ LatUdevCmd(t)
    \/ CallForceLogoutAll(t) \/ CallDestroyIface(t)
    \/ FlaAcquire(t) \/ FlaCmd(t) \/ DiAcquire(t) \/ DiCmd(t)
    \/ CallLogoutAllTargets(t) \/ Lot419(t) \/ LotIfaceAcquire(t)
    \/ LotIfaceCmd(t) \/ Lot438(t) \/ LotTask(t) \/ LotTaskCmd(t)
    \/ Finish(t)

TeardownNext == TeardownStep(Caller)

TeardownSpec == SeqInit /\ [][TeardownNext]_vars

\* callers that only log in, concurrently
LoginStep(t) ==
    \/ CallLogin(t) \/ LoginAcquire(t) \/ LoginCmd(t)
    \/ Login842(t) \/ Login843(t) \/ Login845(t) \/ Login846(t)
    \/ Finish(t)

LoginsNext == \E t \in Threads : NoOutcomePending(t) /\ LoginStep(t)

LoginsSpec == Init /\ [][LoginsNext]_vars

(***************************************************************************)
(* ssh.Async: a command running in the background on the remote host.  The *)
(* user of the handle calls kill(), wait() and read(), one call at a time, *)
(* while the handle's reader thread (_recv_thread) caches the output.      *)
(***************************************************************************)
\* a variant of the test of line 444 that never finds the handle killed
NeverKilled(h) == FALSE

\* line 444: self._thread is None
AlreadyKilled(h) == h.thread = None

\* recv_exit_status() (line 426) returns once the process has exited; with
\* the status already stored it is not called
ExitStatusReady ==
    handle.exit_status # <<>> \/ remote.proc = "exited"

\* a variant of the test of line 424 that finds no status stored
AlwaysNone(h) == TRUE

\* line 424: self._exit_status is None
ExitStatusIsNone(h) == h.exit_status = <<>>

\* lines 423-425: with self._exit_status_lock: if self._exit_status is None
\* (the lock is held from the test to the assignment: one step)
wait_for_exit_status(h) ==
    IF ExitStatusIsNone(h)
    THEN [h EXCEPT !.exit_status = <<remote.status>>]
    ELSE h

\* history of line 425: recv_exit_status is called when the test succeeds
Fetched(hi, h) ==
    [hi EXCEPT !.fetches = IF ExitStatusIsNone(h) THEN @ + 1 ELSE @]

\* the method returns or raises; a kill() or wait() that returns is the
\* handle's terminal transition
AReturnValue(res, value) ==
    /\ apc' = [apc EXCEPT !.main = "adone"]
    /\ acall' = [acall EXCEPT !.result = res, !.value = value]
    /\ ahist' = [ahist EXCEPT !.completed =
                    @ \/ (acall.op \in {"kill", "wait"} /\ res = "returned")]

ACall(op, start) ==
    /\ apc.main = "idle"
    /\ acall.left > 0
    /\ acall' = [NoACall(acall.left - 1) EXCEPT !.op = op,
                                               !.late = ahist.completed]
    /\ apc' = [apc EXCEPT !.main = start]
    /\ UNCHANGED <<handle, remote, ahist, exceptAsync>>

CallKill == ACall("kill", "kill_444")

CallWait == ACall("wait", "wait_489")

CallRead == ACall("read", "read_504")

AReturn(res) == AReturnValue(res, <<>>)

\* the user has consumed the outcome
AFinish ==
    /\ apc.main = "adone"
    /\ apc' = [apc EXCEPT !.main = "idle"]
    /\ acall' = NoACall(acall.left)
    /\ UNCHANGED <<handle, remote, ahist, exceptAsync>>

\* lines 444-445: if self._thread is None: return
Kill444 ==
    /\ apc.main = "kill_444"
    /\ IF AlreadyKilled(handle)
       THEN AReturn("returned")
       ELSE /\ apc' = [apc EXCEPT !.main = "kill_446"]
            /\ UNCHANGED <<acall, ahist>>
    /\ UNCHANGED <<handle, remote, exceptAsync>>

\* line 446, _kill_cmd (lines 428-438): a second session is opened on the
\* transport, the kill command is sent on it and it is closed; without a
\* transport the open fails on None, and the open can fail on the network
Kill446 ==
    /\ apc.main = "kill_446"
    /\ IF handle.tp = None
       THEN /\ AReturn("AttributeError")
            /\ UNCHANGED remote
       ELSE \/ /\ AReturn("ConnectionError")
               /\ UNCHANGED remote
            \/ /\ remote' = [remote EXCEPT
                                !.kills = @ + 1,
                                !.proc = "exited",
                                !.status = IF remote.proc = "running"
                                           THEN -1 ELSE @]
               /\ apc' = [apc EXCEPT !.main = "kill_447"]
               /\ UNCHANGED <<acall, ahist>>
    /\ UNCHANGED <<handle, exceptAsync>>

\* _wait_for_exit_status called by the user (lines 447 and 489); without
\* a status and without a session, recv_exit_status is looked up on None
AWaitForExitStatus ==
    IF handle.exit_status = <<>> /\ handle.session = None
    THEN /\ AReturn("AttributeError")
         /\ UNCHANGED handle
    ELSE /\ ExitStatusReady
         /\ handle' = wait_for_exit_status(handle)
         /\ ahist' = Fetched(ahist, handle)
         /\ apc' = [apc EXCEPT !.main = "cleanup_453"]
         /\ UNCHANGED acall

Kill447 ==
    /\ apc.main = "kill_447"
    /\ AWaitForExitStatus
    /\ UNCHANGED <<remote, exceptAsync>>

Wait489 ==
    /\ apc.main = "wait_489"
    /\ AWaitForExitStatus
    /\ UNCHANGED <<remote, exceptAsync>>

\* a variant of line 454 that does not wait for the thread
JoinReturnsAtOnce == TRUE

\* line 454: self._thread.join() returns once _recv_thread has returned
ThreadJoin == apc.recv = "ended"

\* _close_and_cleanup, lines 453-455: the reader thread is joined
Cleanup453 ==
    /\ apc.main = "cleanup_453"
    /\ IF handle.thread # None
       THEN /\ ThreadJoin
            /\ handle' = [handle EXCEPT !.thread = None]
       ELSE UNCHANGED handle
    /\ apc' = [apc EXCEPT !.main = "cleanup_456"]
    /\ UNCHANGED <<remote, acall, ahist, exceptAsync>>

\* lines 456-458: the session is closed
Cleanup456 ==
    /\ apc.main = "cleanup_456"
    /\ IF handle.session # None
       THEN /\ remote' = [remote EXCEPT !.sessionCloses = @ + 1]
            /\ handle' = [handle EXCEPT !.session = None]
       ELSE UNCHANGED <<remote, handle>>
    /\ apc' = [apc EXCEPT !.main = "cleanup_459"]
    /\ UNCHANGED <<acall, ahist, exceptAsync>>

\* lines 459-463: the transport is closed, the pid forgotten; kill() ends,
\* wait() returns the exit status (line 491)
Cleanup459 ==
    /\ apc.main = "cleanup_459"
    /\ IF handle.tp # None
       THEN /\ remote' = [remote EXCEPT !.tpCloses = @ + 1]
            /\ handle' = [handle EXCEPT !.tp = None, !.pid = None]
       ELSE /\ handle' = [handle EXCEPT !.pid = None]
            /\ UNCHANGED remote
    /\ AReturnValue("returned", IF acall.op = "wait"
                                THEN handle.exit_status ELSE <<>>)
    /\ UNCHANGED exceptAsync

\* read(), lines 504-508: with something cached beyond the read pointer,
\* the slice local_cache[self._last_read_pointer::] is taken and joined;
\* local_cache is the cache itself, not a copy of it
Read504 ==
    /\ apc.main = "read_504"
    /\ IF /\ handle.output_cache # <<>>
          /\ handle.last_read_pointer < Len(handle.output_cache)
       THEN /\ acall' = [acall EXCEPT !.n = Len(handle.output_cache)]
            /\ apc' = [apc EXCEPT !.main = "read_509"]
            /\ UNCHANGED ahist
       ELSE AReturn("returned")
    /\ UNCHANGED <<handle, remote, exceptAsync>>

\* line 509: self._last_read_pointer = len(local_cache), the length the
\* cache has now; the chunks of the slice are returned (line 510)
Read509 ==
    /\ apc.main = "read_509"
    /\ LET slice == (handle.last_read_pointer + 1) .. acall.n
       IN  /\ apc' = [apc EXCEPT !.main = "adone"]
           /\ acall' = [acall EXCEPT !.result = "returned"]
           /\ ahist' = [ahist EXCEPT
                          !.delivered = @ \cup slice,
                          !.twice = @ \/ (slice \cap ahist.delivered # {})]
    /\ handle' = [handle EXCEPT
                    !.last_read_pointer = Len(handle.output_cache)]
    /\ UNCHANGED <<remote, exceptAsync>>

\* _recv_thread, lines 409-413: a chunk of output arrives and is appended
\* to the cache (the chunks are numbered in the order of their arrival)
RecvData ==
    /\ apc.recv = "recv"
    /\ Len(handle.output_cache) < MaxChunks
    /\ handle' = [handle EXCEPT !.output_cache =
                     Append(@, Len(@) + 1)]
    /\ UNCHANGED <<remote, apc, acall, ahist, exceptAsync>>

\* lines 411-412: end of file, after the process has exited
RecvEOF ==
    /\ apc.recv = "recv"
    /\ remote.proc = "exited"
    /\ apc' = [apc EXCEPT !.recv = "recv_414"]
    /\ UNCHANGED <<handle, remote, acall, ahist, exceptAsync>>

\* line 414: the reader thread stores the exit status and ends
Recv414 ==
    /\ apc.recv = "recv_414"
    /\ ExitStatusReady
    /\ handle' = wait_for_exit_status(handle)
    /\ ahist' = Fetched(ahist, handle)
    /\ apc' = [apc EXCEPT !.recv = "ended"]
    /\ UNCHANGED <<remote, acall, exceptAsync>>

\* the remote process exits on its own
ProcExits ==
    /\ remote.proc = "running"
    /\ \E st \in {0, 1} :
         remote' = [remote EXCEPT !.proc = "exited", !.status = st]
    /\ UNCHANGED <<handle, apc, acall, ahist, exceptAsync>>

AsyncNext ==
    \/ CallKill \/ CallWait \/ CallRead \/ AFinish
    \/ Kill444 \/ Kill446 \/ Kill447 \/ Wait489
    \/ Cleanup453 \/ Cleanup456 \/ Cleanup459
    \/ Read504 \/ Read509
    \/ RecvData \/ RecvEOF \/ Recv414 \/ ProcExits

AsyncSpec == Init /\ [][AsyncNext]_vars

(***************************************************************************)
(* SystemConnection.run_cmd -> SSH.exec_command: a transport is opened     *)
(* (_open_transport), a session is opened on it                            *)
(* (_open_session_with_timeout), the command runs to completion and the    *)
(* transport is closed.                                                    *)
(***************************************************************************)
\* isinstance(ex, cls) for the exception classes involved:
\* BadAuthenticationType < AuthenticationException < SSHException
IsInstance(ex, cls) ==
    \/ ex.type = cls
    \/ cls = "SSHException"
         /\ ex.type \in {"AuthenticationException", "BadAuthenticationType"}
    \/ cls = "AuthenticationException" /\ ex.type = "BadAuthenticationType"

BannerText == "Error reading SSH protocol banner"

\* what paramiko.Transport(hostname) and transport.connect() can end with
ConnectOutcomes ==
    { Connected,
      Exc("socket.error", "Connection refused"),
      Exc("BadAuthenticationType", "Bad authentication type"),
      Exc("AuthenticationException", "Authentication failed."),
      Exc("SSHException", BannerText),
      Exc("SSHException", "Incompatible ssh peer") }

\* a variant of the test of line 177 that finds the banner error nowhere
IsBannerErrorNever(ex) == FALSE

\* a variant of the test of line 177 that takes every error for it
IsBannerErrorAlways(ex) == TRUE

\* line 177: "Error reading SSH protocol banner" in str(ex)
IsBannerError(ex) == ex.text = BannerText

\* the except clauses of lines 168-182, in their order: TRUE when the
\* exception is raised again, FALSE when the loop goes on after a sleep
Reraised(ex) ==
    IF IsInstance(ex, "socket.error") THEN TRUE
    ELSE IF IsInstance(ex, "BadAuthenticationType") THEN TRUE
    ELSE IF IsInstance(ex, "SSHException") THEN ~IsBannerError(ex)
    ELSE TRUE

\* with_exception_translation, lines 203-211: what the caller of run_cmd
\* gets for an exception of the wrapped function
Translate(ex) ==
    IF \/ IsInstance(ex, "SSHException")
       \/ IsInstance(ex, "socket.error")
       \/ IsInstance(ex, "EOFError")
    THEN "ConnectionError"
    ELSE ex.type

\* exec_command ends, with a result or with exception ex, and run_cmd's
\* wrapper hands the outcome to the caller
SshOutcome(s, ex) ==
    [s EXCEPT !.pc = "done", !.ex = ex,
              !.result = IF ex = NoExc THEN "returned" ELSE Translate(ex)]

\* a variant of the finally clause that closes nothing
FinallyNothing(s) == s

\* lines 222-223: finally: tp.close()
Finally(s) ==
    [s EXCEPT !.tp = "closed", !.tpCloses = @ + 1]

\* the try block of exec_command is left, with a result or with ex
LeaveTry(s, ex) == SshOutcome(Finally(s), ex)

CallRunCmd ==
    /\ ssh.pc = "idle"
    /\ ssh.left > 0
    /\ \E e \in BOOLEAN, a \in BOOLEAN :
         ssh' = [NoSsh(ssh.left - 1) EXCEPT !.pc = "ot_for",
                                           !.error_expected = e,
                                           !.accepts_timeout = a]
    /\ bg' = NoBg
    /\ UNCHANGED exceptSsh

\* _open_transport, lines 156-182: one pass of the for loop
OtAttempt ==
    /\ ssh.pc = "ot_for"
    /\ ssh.attempt < RETRY_ATTEMPTS
    /\ \E o \in ConnectOutcomes :
         LET s1 == [ssh EXCEPT !.tried = @ + 1, !.last = o,
                               !.banners = IF o.text = BannerText
                                           THEN @ + 1 ELSE @]
         IN  ssh' = IF o = Connected
                    THEN [s1 EXCEPT !.pc = "os_try", !.opened = Connected,
                                    !.tp = "open"]
                    ELSE IF Reraised(o)
                    THEN SshOutcome([s1 EXCEPT !.opened = o], o)
                    ELSE [s1 EXCEPT !.attempt = @ + 1]
    /\ UNCHANGED <<bg, exceptSsh>>

\* lines 183-185: the loop has run out
OtExhausted ==
    /\ ssh.pc = "ot_for"
    /\ ssh.attempt >= RETRY_ATTEMPTS
    /\ LET ex == Exc("ConnectionError", "After 100 attempts")
       IN  ssh' = SshOutcome([ssh EXCEPT !.opened = ex], ex)
    /\ UNCHANGED <<bg, exceptSsh>>

\* the session is open: exec_command goes on at line 207
SessionOpened(s) == [s EXCEPT !.pc = "exec", !.osession = Session]

\* _open_session_with_timeout raises ex inside exec_command's try block
SessionFailed(s, ex) == LeaveTry([s EXCEPT !.osession = ex], ex)

\* lines 46-50: transport.open_session(timeout=OPEN_SESSION_TIMEOUT); a
\* library without the parameter raises TypeError and the background
\* thread is started (lines 63-67)
OsTry ==
    /\ ssh.pc = "os_try"
    /\ IF ssh.accepts_timeout
       THEN /\ \/ ssh' = SessionOpened(ssh)
               \/ ssh' = SessionFailed(ssh, Exc("SSHException", "Timeout"))
            /\ UNCHANGED bg
       ELSE /\ ssh' = [ssh EXCEPT !.pc = "os_join"]
            /\ bg' = [bg EXCEPT !.state = "running"]
    /\ UNCHANGED exceptSsh

\* open_session_in_background, lines 56-61: the open ends, at any time,
\* and writes into one of the two lists
BgOpen ==
    /\ bg.state = "running"
    /\ \/ bg' = [bg EXCEPT !.state = "opened",
                            !.session_list = <<Session>>]
       \/ bg' = [bg EXCEPT !.state = "failed",
                            !.bg_thread_exception_list =
                               <<Exc("SSHException", "Channel refused")>>]
    /\ UNCHANGED <<ssh, exceptSsh>>

\* line 70: bg_thread.join(timeout=OPEN_SESSION_TIMEOUT) returns, because
\* the thread has ended or, with the thread still running, because the
\* deadline has passed
OsJoin ==
    /\ ssh.pc = "os_join"
    /\ bg' = [bg EXCEPT !.timedOut = (bg.state = "running")]
    /\ ssh' = [ssh EXCEPT !.pc = "os_72"]
    /\ UNCHANGED exceptSsh

\* a variant of the test of line 75 that never finds a session
SessionListedNever(b) == FALSE

\* line 75: elif session_list
SessionListed(b) == b.session_list # <<>>

\* lines 72-74: if bg_thread_exception_list: raise its first element
Os72 ==
    /\ ssh.pc = "os_72"
    /\ ssh' = IF bg.bg_thread_exception_list # <<>>
              THEN SessionFailed(ssh, bg.bg_thread_exception_list[1])
              ELSE [ssh EXCEPT !.pc = "os_75"]
    /\ UNCHANGED <<bg, exceptSsh>>

\* lines 75-79: elif session_list: return its first element; else raise
Os75 ==
    /\ ssh.pc = "os_75"
    /\ ssh' = IF SessionListed(bg)
              THEN SessionOpened(ssh)
              ELSE SessionFailed(ssh, Exc("ConnectionError",
                                          "Timed out waiting"))
    /\ UNCHANGED <<bg, exceptSsh>>

\* lines 207-214: the command is sent and its output read to the end, or
\* the connection breaks meanwhile
Exec ==
    /\ ssh.pc = "exec"
    /\ \/ ssh' = [ssh EXCEPT !.pc = "status"]
       \/ \E ex \in {Exc("SSHException", "Channel closed"),
                       Exc("socket.error", "Connection reset"),
                       Exc("EOFError", "")} :
            ssh' = LeaveTry(ssh, ex)
    /\ UNCHANGED <<bg, exceptSsh>>

\* lines 215-221: the exit status arrives; a status the caller does not
\* expect is raised as a paramiko.SSHException, else (status, output) is
\* returned
ExitStatus ==
    /\ ssh.pc = "status"
    /\ \E st \in {0, 1} :
         LET s1 == [ssh EXCEPT !.completed = TRUE, !.status = st]
         IN  ssh' = IF ~ssh.error_expected /\ st # 0
                    THEN LeaveTry(s1, Exc("SSHException",
                                          "Non-zero exit status"))
                    ELSE LeaveTry(s1, NoExc)
    /\ UNCHANGED <<bg, exceptSsh>>

\* the caller of run_cmd has consumed the outcome
SshFinish ==
    /\ ssh.pc = "done"
    /\ ssh' = NoSsh(ssh.left)
    /\ UNCHANGED <<bg, exceptSsh>>

SshNext ==
    \/ CallRunCmd \/ OtAttempt \/ OtExhausted
    \/ OsTry \/ BgOpen \/ OsJoin \/ Os72 \/ Os75
    \/ Exec \/ ExitStatus \/ SshFinish

SshSpec == Init /\ [][SshNext]_vars

(***************************************************************************)
(* System.__init__: threads construct System objects for the same host     *)
(* name and take and give back permits of the host's semaphores.           *)
(***************************************************************************)
\* a variant of the tests of lines 69 and 71 that never finds the name
NotInNever(name, dict) == TRUE

\* lines 69 and 71: self.name not in <dictionary>
NotIn(name, dict) == name \notin DOMAIN dict

\* dict[name] = multiprocessing.Semaphore(value)
SetItem(dict, name, value) ==
    [h \in DOMAIN dict \cup {name} |-> IF h = name THEN value ELSE dict[h]]

\* System(systemconnection) is called
CallSystem(t) ==
    /\ cpc[t] \in {"idle", "ready"}
    /\ constructions > 0
    /\ constructions' = constructions - 1
    /\ cpc' = [cpc EXCEPT ![t] = "sys_68"]
    /\ UNCHANGED <<ISCSIADM_SEMIS, UDEV_SEMIS, SEMI_LOCKS, made,
                   exceptSystem>>

\* line 68: with _SEMI_LOCKS
Sys68(t) ==
    /\ cpc[t] = "sys_68"
    /\ SEMI_LOCKS = 0
    /\ SEMI_LOCKS' = t
    /\ cpc' = [cpc EXCEPT ![t] = "sys_69"]
    /\ UNCHANGED <<ISCSIADM_SEMIS, UDEV_SEMIS, constructions, made,
                   exceptSystem>>

\* lines 69-70: the device semaphore is created if the name has none
Sys69(t) ==
    /\ cpc[t] = "sys_69"
    /\ IF NotIn(SystemName, UDEV_SEMIS)
       THEN /\ UDEV_SEMIS' = SetItem(UDEV_SEMIS, SystemName, UDEV_SEM_VALUE)
            /\ made' = [made EXCEPT !.udev = @ + 1]
       ELSE UNCHANGED <<UDEV_SEMIS, made>>
    /\ cpc' = [cpc EXCEPT ![t] = "sys_71"]
    /\ UNCHANGED <<ISCSIADM_SEMIS, SEMI_LOCKS, constructions, exceptSystem>>

\* lines 71-72: the iscsiadm semaphore is created if the name has none;
\* the with block ends and the lock is released
Sys71(t) ==
    /\ cpc[t] = "sys_71"
    /\ IF NotIn(SystemName, ISCSIADM_SEMIS)
       THEN /\ ISCSIADM_SEMIS' =
                 SetItem(ISCSIADM_SEMIS, SystemName, ISCSIADM_SEM_VALUE)
            /\ made' = [made EXCEPT !.iscsiadm = @ + 1]
       ELSE UNCHANGED <<ISCSIADM_SEMIS, made>>
    /\ SEMI_LOCKS' = 0
    /\ cpc' = [cpc EXCEPT ![t] = "ready"]
    /\ UNCHANGED <<UDEV_SEMIS, constructions, exceptSystem>>

\* a thread that has a System object takes a permit of one of the host's
\* semaphores (iscsi.py line 827, with _ISCSIADM_SEMIS[self.system.name];
\* line 890 for the device semaphore)
TakeIscsiadm(t) ==
    /\ cpc[t] = "ready"
    /\ ISCSIADM_SEMIS[SystemName] > 0
    /\ ISCSIADM_SEMIS' = [ISCSIADM_SEMIS EXCEPT ![SystemName] = @ - 1]
    /\ cpc' = [cpc EXCEPT ![t] = "in_iscsiadm"]
    /\ UNCHANGED <<UDEV_SEMIS, SEMI_LOCKS, constructions, made,
                   exceptSystem>>

TakeUdev(t) ==
    /\ cpc[t] = "ready"
    /\ UDEV_SEMIS[SystemName] > 0
    /\ UDEV_SEMIS' = [UDEV_SEMIS EXCEPT ![SystemName] = @ - 1]
    /\ cpc' = [cpc EXCEPT ![t] = "in_udev"]
    /\ UNCHANGED <<ISCSIADM_SEMIS, SEMI_LOCKS, constructions, made,
                   exceptSystem>>

\* the with block is left: the permit goes back to the semaphore the
\* dictionary holds now
GiveIscsiadm(t) ==
    /\ cpc[t] = "in_iscsiadm"
    /\ ISCSIADM_SEMIS' = [ISCSIADM_SEMIS EXCEPT ![SystemName] = @ + 1]
    /\ cpc' = [cpc EXCEPT ![t] = "ready"]
    /\ UNCHANGED <<UDEV_SEMIS, SEMI_LOCKS, constructions, made,
                   exceptSystem>>

GiveUdev(t) ==
    /\ cpc[t] = "in_udev"
    /\ UDEV_SEMIS' = [UDEV_SEMIS EXCEPT ![SystemName] = @ + 1]
    /\ cpc' = [cpc EXCEPT ![t] = "ready"]
    /\ UNCHANGED <<ISCSIADM_SEMIS, SEMI_LOCKS, constructions, made,
                   exceptSystem>>

ConstructNext ==
    \E t \in Threads :
        \/ CallSystem(t) \/ Sys68(t) \/ Sys69(t) \/ Sys71(t)
        \/ TakeIscsiadm(t) \/ TakeUdev(t)
        \/ GiveIscsiadm(t) \/ GiveUdev(t)

ConstructSpec == ConstructInit /\ [][ConstructNext]_vars

(***************************************************************************)
(* poll(function, retries=n, interval=i, timeout=tm), with or without an   *)
(* exception argument and with or without a timeout, and the code that     *)
(* iterates over the generator it returns.  The generator runs only while  *)
(* its consumer asks for the next result.                                  *)
(***************************************************************************)
\* poll(...) is called: a generator function, so nothing of its body runs
\* before the first result is asked for
CallPoll ==
    /\ gen.state = "none"
    /\ \E n \in 0 .. MaxPollRetries,
          i \in {LOGIN_RETRY_INTERVAL, ISCSIADM_RETRY_INTERVAL},
          tm \in {<<>>} \cup {<<x>> : x \in 0 .. MaxPollTimeout},
          e \in BOOLEAN :
         gen' = [NoGen EXCEPT !.state = "created", !.retries = n,
                              !.given = n, !.interval = i, !.timeout = tm,
                              !.exception = e]
    /\ UNCHANGED <<consumer, exceptPoll>>

\* variant: no result counts as the expected one
ResultMatchesNever(result, expected_result) ==
    FALSE

\* line 187: if result == expected_result
ResultMatches(result, expected_result) ==
    result = expected_result

\* result_poll(function, expected_result, retries=n, interval=i,
\* timeout=tm) is called (retries is 20 and timeout None by default): it
\* sets cnt = 0 and calls poll with no exception argument (lines 179-185)
CallResultPoll ==
    /\ gen.state = "none"
    /\ \E n \in 0 .. MaxPollRetries,
          i \in {LOGIN_RETRY_INTERVAL, ISCSIADM_RETRY_INTERVAL},
          tm \in {<<>>} \cup {<<x>> : x \in 0 .. MaxPollTimeout} :
         gen' = [NoGen EXCEPT !.state = "created", !.retries = n,
                              !.given = n, !.interval = i, !.timeout = tm]
    /\ \E x \in BOOLEAN :
         consumer' = [consumer EXCEPT !.kind = "result_poll", !.expected = x]
    /\ UNCHANGED exceptPoll

\* the generator's locals when the while test of line 105 is reached: from
\* the start (lines 85-103), or from the yield it was suspended at (lines
\* 119-120: current += 1; sleep(interval))
AtWhile(g) ==
    IF g.state = "created"
    THEN LET timeout == IF g.timeout = <<>> THEN 0 ELSE g.timeout[1]
         IN  [g EXCEPT !.retries = PollRetries(g.retries, g.interval, timeout),
                       !.budget = PollTimeout(timeout)]
    ELSE AfterSleep(g, g.interval)

\* the consumer asks for the next result: the generator runs up to the
\* call of the operation, or ends (StopIteration); at the end of the
\* generator result_poll leaves its loop and raises (lines 197-206)
Request ==
    /\ gen.state \in {"created", "suspended"}
    /\ ~consumer.stopped
    /\ LET g == AtWhile(gen)
       IN  IF PollContinues(g.current, g.retries, g.elapsed, g.budget)
           THEN /\ gen' = [g EXCEPT !.state = "invoking"]
                /\ consumer' = [consumer EXCEPT !.requests = @ + 1]
           ELSE /\ gen' = [g EXCEPT !.state = "ended"]
                /\ consumer' =
                     [consumer EXCEPT
                        !.requests = @ + 1,
                        !.outcome = IF consumer.kind = "result_poll"
                                    THEN "PollingException" ELSE @]
    /\ UNCHANGED exceptPoll

\* lines 108-118: the operation is called and its value is yielded; an
\* exception of a class given by the exception argument is caught and None
\* is yielded; any other exception leaves the generator, and result_poll
\* with it.  result_poll compares the result it is given (lines 186-195):
\* it returns on the expected one and goes on to the next otherwise
CallFunction ==
    /\ gen.state = "invoking"
    /\ \E d \in Durations, outcome \in {"value", "caught", "other"} :
         LET g == [AfterCmd(gen, d) EXCEPT !.invoked = @ + 1]
         IN  IF outcome = "value" \/ (outcome = "caught" /\ gen.exception)
             THEN /\ gen' = [g EXCEPT !.state = "suspended"]
                  /\ IF consumer.kind = "result_poll"
                     THEN \E result \in BOOLEAN :
                            consumer' =
                              [consumer EXCEPT
                                 !.results = @ + 1,
                                 !.matched =
                                    IF result = consumer.expected
                                    THEN @ + 1 ELSE @,
                                 !.stopped =
                                    ResultMatches(result, consumer.expected),
                                 !.outcome =
                                    IF ResultMatches(result,
                                                     consumer.expected)
                                    THEN "returned" ELSE @]
                     ELSE consumer' = [consumer EXCEPT !.results = @ + 1]
             ELSE /\ gen' = [g EXCEPT !.state = "raised"]
                  /\ consumer' =
                       [consumer EXCEPT
                          !.outcome = IF consumer.kind = "result_poll"
                                      THEN "raised" ELSE @]
    /\ UNCHANGED exceptPoll

\* the consumer leaves its loop (break or return); the generator stays
\* suspended at its yield
Stop ==
    /\ gen.state = "suspended"
    /\ consumer.kind = "for"
    /\ ~consumer.stopped
    /\ consumer' = [consumer EXCEPT !.stopped = TRUE]
    /\ UNCHANGED <<gen, exceptPoll>>

PollNext == CallPoll \/ CallResultPoll \/ Request \/ CallFunction \/ Stop

PollSpec == Init /\ [][PollNext]_vars

(***************************************************************************)
(* The batch operations: ISCSIInitiator.login_all_targets,                 *)
(* logout_all_sessions and destroy_all_ifaces, and IoComposite.start.      *)
(* Each builds a list of tasks and hands it to the task runner,            *)
(* Parallel(funcs, ..., max_workers=cap).run_threads().  The task runner   *)
(* follows its contract: a pool of at most max_workers workers, every task *)
(* attempted, and an exception raised once all have ended if any failed.   *)
(***************************************************************************)
BatchOps ==
    {"login_all_targets", "logout_all_sessions", "destroy_all_ifaces",
     "start"}

Min(a, b) == IF a < b THEN a ELSE b

\* the max_workers argument of the call of Parallel: supplied is
\* IoComposite's own __max_workers, n the number of tasks
WorkerCap(op, on_hardware, n, supplied) ==
    CASE op = "login_all_targets" ->
           IF on_hardware THEN MAX_ISCSI_WORKER ELSE 1
      [] op \in {"logout_all_sessions", "destroy_all_ifaces"} ->
           Min(BATCH_WORKERS, n)
      [] OTHER -> supplied

\* variant: IoComposite.start cleans up and swallows the failure
PropagatesOnlyInitiator(op, failed) ==
    failed /\ op # "start"

\* the caller of run_threads() lets its exception through: the initiator's
\* methods have no handler around it, IoComposite.start a try/finally
Propagates(op, failed) ==
    failed

Running == {k \in DOMAIN batch.tasks : batch.tasks[k] = "running"}

Queued == {k \in DOMAIN batch.tasks : batch.tasks[k] = "queued"}

Failed == {k \in DOMAIN batch.tasks : batch.tasks[k] = "failed"}

\* a batch operation is called on a host with n sessions, interfaces,
\* discovered targets or IO objects, and reaches run_threads()
CallBatch ==
    /\ batch.state = "none"
    /\ \E op \in BatchOps, hw \in BOOLEAN, n \in 0 .. MaxTasks,
          supplied \in 1 .. MaxTasks :
         /\ op = "start" => n > 0
         /\ op # "start" => supplied = 1
         /\ batch' = [NoBatch EXCEPT
                         !.state = "running", !.op = op, !.on_hardware = hw,
                         !.max_workers = WorkerCap(op, hw, n, supplied),
                         !.tasks = [k \in 1 .. n |-> "queued"]]
    /\ UNCHANGED exceptBatch

\* a free worker of the pool takes the next task
StartTask ==
    /\ batch.state = "running"
    /\ Cardinality(Running) < batch.max_workers
    /\ \E k \in Queued :
         batch' = [batch EXCEPT !.tasks[k] = "running"]
    /\ UNCHANGED exceptBatch

\* a task returns or raises
EndTask ==
    /\ batch.state = "running"
    /\ \E k \in Running, result \in {"ok", "failed"} :
         batch' = [batch EXCEPT !.tasks[k] = result]
    /\ UNCHANGED exceptBatch

\* all tasks have ended: run_threads() returns, or raises if a task failed,
\* and the caller goes on.  IoComposite.start calls stop() on the way out
\* of a failure; login_all_targets runs its udev command after a success
\* and raises EnvironmentError if that fails
RunThreadsEnds ==
    /\ batch.state = "running"
    /\ Running = {} /\ Queued = {}
    /\ IF Propagates(batch.op, Failed # {})
       THEN batch' = [batch EXCEPT !.state = "raised",
                                   !.stopped = (batch.op = "start")]
       ELSE IF Failed # {}
       THEN batch' = [batch EXCEPT !.state = "returned",
                                   !.stopped = (batch.op = "start")]
       ELSE \E ret \in {0, 1} :
              batch' = [batch EXCEPT
                          !.state = IF batch.op = "login_all_targets"
                                       /\ ret # 0
                                    THEN "EnvironmentError" ELSE "returned"]
    /\ UNCHANGED exceptBatch

BatchNext == CallBatch \/ StartTask \/ EndTask \/ RunThreadsEnds

BatchSpec == Init /\ [][BatchNext]_vars

(***************************************************************************)
(* Commands run against several hosts by the threads of one process.  Each *)
(* command opens its own transport in SSH._open_transport, inside          *)
(* `with sema:`, the one semaphore of the ssh module, and then runs over   *)
(* that transport.  The threads are counted by host and position.          *)
(***************************************************************************)
UnderWay(h) == ops[h].waiting + ops[h].connecting + ops[h].running

\* a thread calls run_cmd on the System of host h and reaches line 163
StartOp(h) ==
    /\ UnderWay(h) < MaxOpsPerHost
    /\ ops' = [ops EXCEPT ![h].waiting = @ + 1]
    /\ UNCHANGED <<sema, exceptFleet>>

\* line 163: `with sema:` is entered; the thread waits while no permit is
\* free.  Lines 164-166 then create the Transport and connect, which takes
\* as long as the host takes to answer
EnterSema(h) ==
    /\ ops[h].waiting > 0
    /\ sema > 0
    /\ sema' = sema - 1
    /\ ops' = [ops EXCEPT ![h].waiting = @ - 1, ![h].connecting = @ + 1]
    /\ UNCHANGED exceptFleet

\* line 167: connect returned, the with block is left and the command runs
TransportOpened(h) ==
    /\ ops[h].connecting > 0
    /\ sema' = sema + 1
    /\ ops' = [ops EXCEPT ![h].connecting = @ - 1, ![h].running = @ + 1]
    /\ UNCHANGED exceptFleet

\* lines 168-183: connect raised; the with block is left by the exception,
\* which ends the command, or, for a banner error, sends the thread back to
\* line 163
TransportFailed(h) ==
    /\ ops[h].connecting > 0
    /\ sema' = sema + 1
    /\ \E again \in BOOLEAN :
         ops' = [ops EXCEPT ![h].connecting = @ - 1,
                            ![h].waiting = IF again THEN @ + 1 ELSE @]
    /\ UNCHANGED exceptFleet

\* the command ends
CommandEnds(h) ==
    /\ ops[h].running > 0
    /\ ops' = [ops EXCEPT ![h].running = @ - 1]
    /\ UNCHANGED <<sema, exceptFleet>>

FleetNext ==
    \E h \in Fleet :
        \/ StartOp(h) \/ EnterSema(h) \/ TransportOpened(h)
        \/ TransportFailed(h) \/ CommandEnds(h)

FleetSpec == Init /\ [][FleetNext]_vars

(***************************************************************************)
(* SSH.exec_command_async(cmd): a transport is opened and an Async object  *)
(* is built on it, whose constructor runs _exec_command: the session is    *)
(* opened, the command is wrapped and sent, the pid line is read and the   *)
(* reader thread is started.  A command is a sequence of tokens: a token   *)
(* is one character the wrapping looks at, or a word holding none of them. *)
(***************************************************************************)
CmdTokens == {" ", "|", ";", "&", "(", ")", "$", "<", ">", "2", "ls", "for"}

Commands == UNION {[1 .. n -> CmdTokens] : n \in 1 .. MaxCmdLen}

\* lines 366-368: the words with which a command is run without exec
ShellBuiltins == {"for", "if", "case", "while", "until", "coproc", "select",
                  "function", "alias", "time", "eval", "exec", "[", "(", ":"}

\* the separators of the split of line 361: (\s|;|&|\||<|>)
WordSeparators == {" ", ";", "&", "|", "<", ">"}

\* str.lstrip(): leading white space is dropped
RECURSIVE LStrip(_)
LStrip(str) ==
    IF str # <<>> /\ Head(str) = " " THEN LStrip(Tail(str)) ELSE str

\* re.split(r'(\s|;|&|\||<|>)', str)[0]: what precedes the first separator
RECURSIVE FirstField(_)
FirstField(str) ==
    IF str = <<>> \/ Head(str) \in WordSeparators THEN <<>>
    ELSE <<Head(str)>> \o FirstField(Tail(str))

\* re.match(r'\d*' + mark, str): digits, then the mark, at the start
RECURSIVE MatchesDigitsThen(_, _)
MatchesDigitsThen(str, mark) ==
    /\ str # <<>>
    /\ \/ Head(str) = mark
       \/ Head(str) = "2" /\ MatchesDigitsThen(Tail(str), mark)

\* re.search(r'^\(|[^$]\(', cmd): a parenthesis that opens the command or
\* follows anything but a dollar sign
SearchesSubshell(cmd) ==
    \E i \in DOMAIN cmd :
        cmd[i] = "(" /\ (i = 1 \/ cmd[i - 1] # "$")

\* line 359: '|' in cmd or ';' in cmd or re.search(...)
IsCompound(cmd) ==
    \/ Contains(cmd, "|") \/ Contains(cmd, ";")
    \/ SearchesSubshell(cmd)

\* lines 357-371: exec is used unless the command is compound, begins
\* with a redirection, or its first word is one of the listed words (a
\* field of several tokens is none of them)
can_use_exec(cmd) ==
    LET cmd_word0 == FirstField(LStrip(cmd))
    IN  /\ ~IsCompound(cmd)
        /\ ~(MatchesDigitsThen(cmd, ">") \/ MatchesDigitsThen(cmd, "<"))
        /\ ~(Len(cmd_word0) = 1 /\ cmd_word0[1] \in ShellBuiltins)

\* lines 372-375
fullcmd(cmd) ==
    IF can_use_exec(cmd) THEN <<"echo $$; ", "exec ">> \o cmd
    ELSE <<"echo $$; ">> \o cmd

\* the line the remote shell answers first, as _recv_pid_line returns it
\* (nothing when the channel is at EOF)
PidLines == { <<"4">>, <<" ", "4", "2">>, <<>>, <<"b", "a", "s", "h">> }

Digits == {"2", "4"}

\* str.strip(): white space at both ends is dropped
RECURSIVE RStrip(_)
RStrip(str) ==
    IF str # <<>> /\ str[Len(str)] = " "
    THEN RStrip(SubSeq(str, 1, Len(str) - 1)) ELSE str

\* int(pid_string.strip()) of line 380 returns (else raises ValueError)
ParsesAsInt(pid_string) ==
    LET str == RStrip(LStrip(pid_string))
    IN  str # <<>> /\ \A i \in DOMAIN str : str[i] \in Digits

\* lines 234-235: tp = self._open_transport(); Async(transport=tp, cmd=cmd)
\* is entered with the transport open, or _open_transport raises
CallExecCommandAsync ==
    /\ launch.state = "none"
    /\ \E cmd \in Commands, opened \in BOOLEAN :
         launch' = IF opened
                   THEN [NoLaunch EXCEPT !.state = "init", !.cmd = cmd,
                                         !.tp = "open"]
                   ELSE [NoLaunch EXCEPT !.state = "ended", !.cmd = cmd,
                                         !.outcome = "raised"]
    /\ UNCHANGED exceptLaunch

\* lines 321-330 and 349-353: the fields are set, then the session is
\* opened within OPEN_SESSION_TIMEOUT or the attempt raises
OpenSession ==
    /\ launch.state = "init"
    /\ \E opened \in BOOLEAN :
         launch' = IF opened
                   THEN [launch EXCEPT !.state = "session",
                                       !.session = "open"]
                   ELSE [launch EXCEPT !.state = "ended",
                                       !.outcome = "raised"]
    /\ UNCHANGED exceptLaunch

\* lines 355-377: the command line is built and sent to the remote shell
ExecCommand ==
    /\ launch.state = "session"
    /\ launch' = [launch EXCEPT !.state = "pid",
                                !.fullcmd = fullcmd(launch.cmd)]
    /\ UNCHANGED exceptLaunch

\* lines 379-380: the pid line is read and parsed
RecvPidLine ==
    /\ launch.state = "pid"
    /\ \E pid_string \in PidLines :
         launch' = IF ParsesAsInt(pid_string)
                   THEN [launch EXCEPT !.state = "thread",
                                       !.pid = RStrip(LStrip(pid_string))]
                   ELSE [launch EXCEPT !.state = "ended",
                                       !.outcome = "raised"]
    /\ UNCHANGED exceptLaunch

\* lines 382-385: the reader thread is started and the object is returned
StartThread ==
    /\ launch.state = "thread"
    /\ launch' = [launch EXCEPT !.state = "ended", !.thread = "thread",
                                !.outcome = "returned"]
    /\ UNCHANGED exceptLaunch

LaunchNext ==
    \/ CallExecCommandAsync \/ OpenSession \/ ExecCommand \/ RecvPidLine
    \/ StartThread

LaunchSpec == Init /\ [][LaunchNext]_vars

(***************************************************************************)
(* The limiters of one host under load: operations of ISCSIInitiator and   *)
(* Client run by many threads reach the `with` blocks of the host's two    *)
(* semaphores.  The operations are counted by position.                    *)
(***************************************************************************)
IscsiadmBlocks == {"single", "loop", "attempt"}

Waiting(block) == "w_" \o block

OpsUnderWay ==
    guarded["w_single"] + guarded["single"] + guarded["w_loop"]
      + guarded["loop"] + guarded["w_attempt"] + guarded["attempt"]
      + guarded["w_udev"] + guarded["udev"]

\* how a `with` block can be left
Exits == {"return", "exception"}

\* a variant of __exit__ that gives the permit back on a normal exit only
ReleasedOnReturn(how) == how = "return"

\* the `with` statement: __exit__ releases the semaphore however the
\* block is left
Released(how) == how \in Exits

\* an operation arrives at a `with` block of one of the semaphores
ReachBlock ==
    /\ OpsUnderWay < MaxGuardedOps
    /\ \E block \in IscsiadmBlocks \cup {"udev"} :
         guarded' = [guarded EXCEPT ![Waiting(block)] = @ + 1]
    /\ UNCHANGED <<ISCSIADM_SEMIS, UDEV_SEMIS, exceptLimiter>>

\* with _ISCSIADM_SEMIS[self.system.name]: entered when a permit is free
EnterIscsiadm ==
    /\ \E block \in IscsiadmBlocks :
         /\ guarded[Waiting(block)] > 0
         /\ guarded' = [guarded EXCEPT ![Waiting(block)] = @ - 1,
                                       ![block] = @ + 1]
    /\ ISCSIADM_SEMIS[SystemName] > 0
    /\ ISCSIADM_SEMIS' = [ISCSIADM_SEMIS EXCEPT ![SystemName] = @ - 1]
    /\ UNCHANGED <<UDEV_SEMIS, exceptLimiter>>

\* with _UDEV_SEMIS[self.system.name]: entered when the permit is free
EnterUdev ==
    /\ guarded["w_udev"] > 0
    /\ UDEV_SEMIS[SystemName] > 0
    /\ UDEV_SEMIS' = [UDEV_SEMIS EXCEPT ![SystemName] = @ - 1]
    /\ guarded' = [guarded EXCEPT !["w_udev"] = @ - 1, !["udev"] = @ + 1]
    /\ UNCHANGED <<ISCSIADM_SEMIS, exceptLimiter>>

\* the command of a single block, or the retry loop of login, logout or
\* delete, ends: by falling out of the block, break or return, or by an
\* exception of run_cmd_check or the raise after the loop
LeaveIscsiadm ==
    /\ \E block \in {"single", "loop"}, how \in Exits :
         /\ guarded[block] > 0
         /\ guarded' = [guarded EXCEPT ![block] = @ - 1]
         /\ ISCSIADM_SEMIS' =
              [ISCSIADM_SEMIS EXCEPT ![SystemName] =
                 IF Released(how) THEN @ + 1 ELSE @]
    /\ UNCHANGED <<UDEV_SEMIS, exceptLimiter>>

\* destroy_iface, lines 979-995: an attempt's block is left; after exit
\* status 6 with retries left the loop comes back to the `with`
LeaveAttempt ==
    /\ guarded["attempt"] > 0
    /\ \E how \in Exits, again \in BOOLEAN :
         /\ again => how = "return"
         /\ guarded' = [guarded EXCEPT
                          !["attempt"] = @ - 1,
                          !["w_attempt"] = IF again THEN @ + 1 ELSE @]
         /\ ISCSIADM_SEMIS' =
              [ISCSIADM_SEMIS EXCEPT ![SystemName] =
                 IF Released(how) THEN @ + 1 ELSE @]
    /\ UNCHANGED <<UDEV_SEMIS, exceptLimiter>>

\* the udev command ends, or run_cmd_check raises
LeaveUdev ==
    /\ guarded["udev"] > 0
    /\ \E how \in Exits :
         UDEV_SEMIS' = [UDEV_SEMIS EXCEPT ![SystemName] =
                          IF Released(how) THEN @ + 1 ELSE @]
    /\ guarded' = [guarded EXCEPT !["udev"] = @ - 1]
    /\ UNCHANGED <<ISCSIADM_SEMIS, exceptLimiter>>

LimiterNext ==
    \/ ReachBlock \/ EnterIscsiadm \/ EnterUdev
    \/ LeaveIscsiadm \/ LeaveAttempt \/ LeaveUdev

LimiterSpec == Init /\ [][LimiterNext]_vars

(***************************************************************************)
(* Properties of the lifecycle operations.                                 *)
(***************************************************************************)
\* the logged-in and the discovered targets of the host, as sets
LoggedIn == SeqToSet(ISCSI_LOGGEDIN_TARGETS[SystemName].list)

Discovered == SeqToSet(DISCOVERED_TARGETS[SystemName].list)

\* the call of method op by thread t is at the instant of its outcome
Ended(t, op) == pc[t] = "done" /\ call[t].op = op

\* positions at which an iscsiadm command of the thread is executing
IscsiadmCmdPcs ==
    {"login_cmd", "logout_cmd", "delete_cmd", "discover_cmd", "manual_cmd",
     "manual_list_cmd"}

\* C1: when concurrent login() calls for distinct targets have all returned
\* after their command exited 0, and nothing else was called (there are as
\* many targets logged in with exit 0 as calls were made), the logged-in
\* registry of the host holds exactly those targets, each once: none lost,
\* none duplicated.
C1_ConcurrentLoginsAllRegistered ==
    LET list == ISCSI_LOGGEDIN_TARGETS[SystemName].list
        ok == hist.loginsOk
    IN  ( /\ \A t \in Threads : pc[t] = "idle"
          /\ Cardinality(ok) = MaxConcurrentCalls - calls )
        => ( /\ SeqToSet(list) = ok
             /\ Len(list) = Cardinality(ok) )

\* C2: never more than 8 iscsiadm commands execute at once against the
\* host, and every thread whose iscsiadm command is executing holds a permit
\* of the host's iSCSI-admin semaphore.
C2_EveryCommandHoldsPermit ==
    /\ Cardinality({t \in Threads : pc[t] \in IscsiadmCmdPcs})
         <= ISCSIADM_SEM_VALUE
    /\ \A t \in Threads : pc[t] \in IscsiadmCmdPcs => loc[t].permits = 1

\* C3: every target in the logged-in registry has at some earlier point
\* been in the discovered registry of the host (same ip, port, iqn, iface).
C3_LoggedInWasDiscovered ==
    LoggedIn \subseteq hist.everDiscovered

\* C4 as stated: a logout() or delete() whose command exited 6 on every
\* attempt ends by raising EnvironmentError after exactly 12 commands.
C4_BusyAlwaysExhaustsRetries ==
    \A t \in Threads :
        ( /\ Ended(t, "logout") \/ Ended(t, "delete")
          /\ loc[t].allBusy )
        => ( /\ loc[t].result = "EnvironmentError"
             /\ loc[t].current = IF call[t].op = "logout"
                                 THEN LOGOUT_RETRY_COUNT
                                 ELSE DELETE_RETRY_COUNT )

\* C4 amended: a logout() or delete() whose command exited 6 on every
\* attempt, never with output classified as already gone, and whose
\* attempts took less than 1,000,000 seconds in all, ends by raising
\* EnvironmentError after exactly 12 commands; and no logout() or delete()
\* ever starts a 13th command.
C4_BusyExhaustsRetries ==
    \A t \in Threads :
        /\ pc[t] = "logout_cmd" => loc[t].current < LOGOUT_RETRY_COUNT
        /\ pc[t] = "delete_cmd" => loc[t].current < DELETE_RETRY_COUNT
        /\ ( /\ Ended(t, "logout") \/ Ended(t, "delete")
             /\ loc[t].allBusy
             /\ ~loc[t].benign
             /\ loc[t].elapsed < POLL_DEFAULT_TIMEOUT )
           => ( /\ loc[t].result = "EnvironmentError"
                /\ loc[t].current = IF call[t].op = "logout"
                                    THEN LOGOUT_RETRY_COUNT
                                    ELSE DELETE_RETRY_COUNT )

\* a logout() raises after 12 commands that all exited 6
C4_Witness ==
    \E t \in Threads :
        /\ Ended(t, "logout")
        /\ loc[t].allBusy
        /\ ~loc[t].benign
        /\ loc[t].elapsed < POLL_DEFAULT_TIMEOUT
        /\ loc[t].result = "EnvironmentError"
        /\ loc[t].current = LOGOUT_RETRY_COUNT

\* C5: when logout(iqn, ip) returns after its command exited 0, the
\* logged-in registry holds no target with that iqn and that ip (with ip
\* omitted: no target with that iqn).
C5_LogoutRemovesTarget ==
    \A t \in Threads :
        ( /\ Ended(t, "logout")
          /\ loc[t].result = "returned"
          /\ ~loc[t].benign )
        => \A target \in LoggedIn :
               ~( /\ target.iqn = call[t].iqn
                  /\ call[t].ip = None \/ target.ip = call[t].ip )

\* C6: with calls made one at a time, a delete() whose command exited 0, or
\* 21, or printed "No records found", returns without raising (so does a
\* second delete() of a target just deleted), and the discovered registry
\* then holds no target with that iqn.
C6_DeleteIdempotent ==
    \A t \in Threads :
        Ended(t, "delete") =>
            /\ loc[t].benign => loc[t].result = "returned"
            /\ loc[t].result # "EnvironmentError" =>
                   /\ loc[t].result = "returned"
                   /\ \A target \in Discovered : target.iqn # call[t].iqn

\* a delete() for an iqn that had been discovered and was already deleted
\* when the call began (only delete() removes from the registry) returns on
\* the already-gone outcome
C6_Witness ==
    \E t \in Threads :
        /\ Ended(t, "delete")
        /\ loc[t].benign
        /\ loc[t].result = "returned"
        /\ \E target \in hist.everDiscovered : target.iqn = call[t].iqn
        /\ \A target \in SeqToSet(loc[t].pre.list) :
               target.iqn # call[t].iqn
        /\ \A target \in Discovered : target.iqn # call[t].iqn

\* C7: discover() returns normally exactly if some attempt exited 0 with
\* output whose parsed iqns include every requested iqn; then every parsed
\* (address, iqn) pair with a requested iqn is in the discovered registry
\* and no pair with another iqn has been added.
C7_DiscoverSubsetCorrect ==
    \A t \in Threads :
        Ended(t, "discover") =>
            /\ (loc[t].result = "returned") <=> loc[t].matched
            /\ loc[t].result = "returned" =>
                   \A item \in loc[t].dict :
                       IF item.iqn \in call[t].iqns
                       THEN DiscoverTarget(t, item) \in Discovered
                       ELSE DiscoverTarget(t, item) \in Discovered =>
                              DiscoverTarget(t, item) \in SeqToSet(loc[t].pre.list)

\* C8: as long as no attempt of a discover() has reported every requested
\* iqn, the call has not returned and the discovered registry is as it was
\* when the call began; a call that ends after such an attempt has returned
\* with every requested iqn registered at the address parsed for it.
C8_NoPartialRegistration ==
    \A t \in Threads :
        call[t].op = "discover" =>
            /\ ~loc[t].matched =>
                   /\ ~(pc[t] = "done" /\ loc[t].result = "returned")
                   /\ DISCOVERED_TARGETS[SystemName] = loc[t].pre
            /\ (pc[t] = "done" /\ loc[t].matched) =>
                   /\ loc[t].result = "returned"
                   /\ \A iqn \in call[t].iqns :
                          \E item \in loc[t].dict :
                              /\ item.iqn = iqn
                              /\ DiscoverTarget(t, item) \in Discovered

\* C9: a discover() that never observed all requested iqns ends by raising
\* EnvironmentError, and a discover() that returns normally has left every
\* requested iqn in the discovered registry.
C9_DiscoverFailureRaises ==
    \A t \in Threads :
        Ended(t, "discover") =>
            /\ ~loc[t].matched => loc[t].result = "EnvironmentError"
            /\ loc[t].result = "returned" =>
                   \A iqn \in call[t].iqns :
                       \E target \in Discovered : target.iqn = iqn

\* C10: a login(..., timeout=t) none of whose attempts exited 0 or 3, 8 or
\* 21 ends by raising EnvironmentError after exactly t commands, with the
\* logged-in registry as it was when the call began.
C10_LoginExhaustsRetries ==
    \A t \in Threads :
        (Ended(t, "login") /\ loc[t].result # "returned") =>
            /\ loc[t].result = "EnvironmentError"
            /\ loc[t].current = call[t].timeout
            /\ ISCSI_LOGGEDIN_TARGETS[SystemName] = loc[t].pre

\* C11: when the login command exits with status 3, 8 or 21, login()
\* returns at that step without raising, the command is not issued again,
\* and the logged-in and the discovered registry are what they were: the
\* step changes neither, and the logged-in entry at the return is the one
\* the call started with.
C11_BenignStatusReturnsUnchanged ==
    /\ [][\A t \in Threads :
            (pc[t] = "login_cmd" /\ call[t].op = "login"
               /\ loc'[t].status \in {3, 8, 21})
            => /\ pc'[t] = "done"
               /\ loc'[t].result = "returned"
               /\ UNCHANGED <<ISCSI_LOGGEDIN_TARGETS, DISCOVERED_TARGETS>>]_vars
    /\ [](\A t \in Threads :
            (call[t].op = "login" /\ loc[t].status \in {3, 8, 21})
            => /\ pc[t] = "done"
               /\ ISCSI_LOGGEDIN_TARGETS[SystemName] = loc[t].pre)

\* a login that ended on status 8 while targets were registered
C11_Witness ==
    \E t \in Threads :
        /\ Ended(t, "login")
        /\ loc[t].status = 8
        /\ loc[t].result = "returned"
        /\ LoggedIn # {}
        /\ Discovered # {}

(***************************************************************************)
(* Properties of the asynchronous command handle.                          *)
(***************************************************************************)
\* C12: once a kill() or a wait() of the handle has returned, no step of a
\* further kill() or wait() sends a kill command, closes the session or
\* the transport, or changes the exit status or the cached output, and
\* such a call ends by returning, never by raising.
C12_TerminalCallsAreNoOps ==
    [][(ahist.completed /\ acall'.late /\ acall'.op \in {"kill", "wait"})
       => /\ remote'.kills = remote.kills
          /\ remote'.sessionCloses = remote.sessionCloses
          /\ remote'.tpCloses = remote.tpCloses
          /\ handle'.exit_status = handle.exit_status
          /\ handle'.output_cache = handle.output_cache
          /\ (apc'.main = "adone" => acall'.result = "returned")]_vars

\* a wait() made after a kill() had completed has returned; the process
\* had written output and was killed
C12_Witness ==
    /\ apc.main = "adone"
    /\ acall.op = "wait"
    /\ acall.late
    /\ acall.result = "returned"
    /\ remote.kills = 1
    /\ handle.exit_status = <<-1>>
    /\ handle.output_cache # <<>>

\* C13: read() returns no chunk twice and skips none, whatever the reader
\* thread appends meanwhile: no chunk was returned by two reads, and every
\* chunk the read pointer has passed was returned by some read (the
\* chunks beyond the pointer are the ones a later read() returns).
C13_ReadSkipsNoChunk ==
    /\ ~ahist.twice
    /\ \A i \in 1 .. handle.last_read_pointer : i \in ahist.delivered

(***************************************************************************)
(* Properties of the synchronous command over ssh.                         *)
(***************************************************************************)
\* C14: _open_transport never makes more than 100 connection attempts;
\* when it has ended by raising and every attempt had failed with the
\* banner-read error, it made exactly 100 attempts and raised
\* ConnectionError; when an attempt connected, that attempt was the last
\* one made in the call (all attempts before it were banner failures).
C14_BannerRetriesBounded ==
    /\ ssh.tried <= RETRY_ATTEMPTS
    /\ (ssh.opened \notin {NoExc, Connected} /\ ssh.banners = ssh.tried)
         => /\ ssh.tried = RETRY_ATTEMPTS
            /\ ssh.opened.type = "ConnectionError"
    /\ ssh.opened = Connected => ssh.tried = ssh.banners + 1

\* the hundredth banner failure has ended the call with ConnectionError
C14_Witness ==
    /\ ssh.pc = "done"
    /\ ssh.banners = RETRY_ATTEMPTS
    /\ ssh.tried = RETRY_ATTEMPTS
    /\ ssh.opened.type = "ConnectionError"
    /\ ssh.result = "ConnectionError"

\* C15: once a connection attempt has failed with an authentication
\* error, a socket error or an SSH error other than the banner-read error,
\* _open_transport is no longer in its loop, what it raised is that very
\* error, and the failed attempt is the last one it made.
C15_OtherErrorsRaisedAtOnce ==
    (ssh.last \notin {NoExc, Connected} /\ ssh.last.text # BannerText)
    => /\ ssh.pc # "ot_for"
       /\ ssh.opened = ssh.last
       /\ ssh.tried = ssh.banners + 1

\* an authentication failure after two banner failures has ended the call
C15_Witness ==
    /\ ssh.pc = "done"
    /\ ssh.last.type = "AuthenticationException"
    /\ ssh.banners = 2
    /\ ssh.opened = ssh.last

\* C16 as stated: without a timeout parameter, the session open ends in
\* one of three ways, the session when the background open finished before
\* the deadline, that open's exception when it failed before the deadline,
\* and ConnectionError whenever the deadline passed first.
C16_DeadlinePassedMeansConnectionError ==
    (~ssh.accepts_timeout /\ ssh.osession # NoExc)
    => /\ \/ ssh.osession = Session
          \/ <<ssh.osession>> = bg.bg_thread_exception_list
          \/ ssh.osession.type = "ConnectionError"
       /\ (~bg.timedOut /\ bg.state = "opened") => ssh.osession = Session
       /\ (~bg.timedOut /\ bg.state = "failed")
            => <<ssh.osession>> = bg.bg_thread_exception_list
       /\ bg.timedOut => ssh.osession.type = "ConnectionError"

\* C16 amended: without a timeout parameter, the session open ends in one
\* of three ways: the session, which the background open had then
\* delivered; that open's exception, which it had then raised; or
\* ConnectionError, and this only if the deadline passed with the open
\* still running.  A background open that finished before the deadline
\* decides the outcome.  The wait for the open (join) can always return.
C16_ThreeOutcomes ==
    /\ (~ssh.accepts_timeout /\ ssh.osession # NoExc)
       => /\ \/ ssh.osession = Session /\ bg.session_list # <<>>
             \/ <<ssh.osession>> = bg.bg_thread_exception_list
             \/ ssh.osession.type = "ConnectionError"
          /\ (~bg.timedOut /\ bg.state = "opened") => ssh.osession = Session
          /\ (~bg.timedOut /\ bg.state = "failed")
               => <<ssh.osession>> = bg.bg_thread_exception_list
          /\ ssh.osession.type = "ConnectionError" => bg.timedOut
    /\ ssh.pc = "os_join" => ENABLED OsJoin

\* the deadline passed first and the open ended with ConnectionError
C16_Witness ==
    /\ ~ssh.accepts_timeout
    /\ bg.timedOut
    /\ bg.state = "running"
    /\ ssh.osession.type = "ConnectionError"
    /\ ssh.pc = "done"

\* C17: a transport is open only inside exec_command's try block; when
\* the call has ended after a transport was opened, on whatever path, the
\* transport is closed and was closed once.
C17_TransportClosedOnEveryExit ==
    /\ ssh.tp = "open"
         => ssh.pc \in {"os_try", "os_join", "os_72", "os_75",
                        "exec", "status"}
    /\ (ssh.pc = "done" /\ ssh.opened = Connected)
         => ssh.tp = "closed" /\ ssh.tpCloses = 1

\* the call has ended on an exception raised while the output was read
C17_Witness ==
    /\ ssh.pc = "done"
    /\ ssh.opened = Connected
    /\ ssh.osession = Session
    /\ ssh.ex.type = "EOFError"
    /\ ssh.tp = "closed"

\* C18: when the caller rejects non-zero exit statuses and the command
\* has run to completion with a non-zero status, the call ends with a
\* command-failure error and not with ConnectionError.
C18_NonZeroStatusIsCommandFailure ==
    (ssh.pc = "done" /\ ssh.completed /\ ~ssh.error_expected
       /\ ssh.status # 0)
    => /\ ssh.result = "CommandFailure"
       /\ ssh.result # "ConnectionError"

(***************************************************************************)
(* Properties of the construction of System objects.                       *)
(***************************************************************************)
\* the threads inside a with block of the host's semaphore
Holders(where) == {t \in Threads : cpc[t] = where}

\* C19: however the constructions for one host name interleave, at most
\* one device semaphore and one iscsiadm semaphore are ever created for
\* the name, and exactly one of each once a construction has ended; the
\* semaphore the dictionary holds is never replaced, so its free permits
\* plus the permits held by threads always make up its initial value.
C19_OneSemaphorePairPerHost ==
    /\ made.udev <= 1
    /\ made.iscsiadm <= 1
    /\ (\E t \in Threads : cpc[t] \in {"ready", "in_iscsiadm", "in_udev"})
         => made = [udev |-> 1, iscsiadm |-> 1]
    /\ SystemName \in DOMAIN UDEV_SEMIS
         => UDEV_SEMIS[SystemName] + Cardinality(Holders("in_udev"))
              = UDEV_SEM_VALUE
    /\ SystemName \in DOMAIN ISCSIADM_SEMIS
         => ISCSIADM_SEMIS[SystemName]
              + Cardinality(Holders("in_iscsiadm")) = ISCSIADM_SEM_VALUE

\* a thread is past the tests of a later construction while another
\* thread holds a permit of the semaphore made by the first one
C19_Witness ==
    \E t, u \in Threads :
        /\ cpc[t] = "in_iscsiadm"
        /\ cpc[u] = "ready"
        /\ constructions = MaxConstructions - 3
        /\ made = [udev |-> 1, iscsiadm |-> 1]

(***************************************************************************)
(* Properties of poll().                                                   *)
(***************************************************************************)
\* C20: a generator of poll(op, retries=n, interval=i) never invokes op
\* more than n times, never invokes it ahead of the consumer's requests
\* (so not after the consumer has stopped asking), and each invocation
\* gives the consumer exactly one result unless op's exception passes
\* through; when the consumer has taken n results and asks again, the
\* generator ends, without raising and without invoking op.
C20_PollInvokesOncePerResult ==
    /\ gen.invoked <= gen.retries
    /\ gen.invoked <= consumer.requests
    /\ gen.invoked =
         consumer.results + (IF gen.state = "raised" THEN 1 ELSE 0)
    /\ gen.state \in {"suspended", "ended"}
         => consumer.results = gen.invoked
    /\ (gen.state # "none" /\ consumer.results = gen.retries
          /\ consumer.requests > consumer.results)
         => gen.state = "ended"
    /\ consumer.stopped
         => gen.state = "suspended" /\ consumer.requests = gen.invoked

\* the consumer took all the results of the largest retry count and
\* asked once more
C20_Witness ==
    /\ gen.state = "ended"
    /\ gen.retries = MaxPollRetries
    /\ consumer.results = MaxPollRetries
    /\ gen.invoked = MaxPollRetries
    /\ consumer.requests = MaxPollRetries + 1

\* C21: whenever poll() was given a timeout (any value but None), the
\* operation has been invoked at most floor(timeout / interval) times,
\* whatever the retries argument was.
C21_TimeoutOverridesRetries ==
    (gen.state # "none" /\ gen.timeout # <<>>)
        => gen.invoked <= gen.timeout[1] \div gen.interval

\* C22: result_poll returns exactly when a polled result was equal to
\* expected_result, at the first such result and with the operation
\* invoked no further; it raises PollingException exactly when the budget
\* of the poll is exhausted (the generator has ended) with no result equal
\* to expected_result; while neither has happened and the operation has
\* not raised, it is still polling.
C22_ResultPollOutcome ==
    consumer.kind = "result_poll" =>
        /\ consumer.outcome = "returned"
              <=> consumer.matched > 0
        /\ consumer.matched <= 1
        /\ consumer.outcome = "returned"
              => /\ gen.state = "suspended"
                 /\ gen.invoked = consumer.results
                 /\ consumer.requests = consumer.results
                 /\ ~ENABLED Request
        /\ consumer.outcome = "PollingException"
              <=> (gen.state = "ended" /\ consumer.matched = 0)
        /\ consumer.outcome = "raised" <=> gen.state = "raised"

\* result_poll returned at the third result, after two that were not the
\* expected one
C22_Witness ==
    /\ consumer.kind = "result_poll"
    /\ consumer.outcome = "returned"
    /\ consumer.results = 3
    /\ gen.invoked = 3

\* result_poll raised PollingException after the operation was invoked
C22_WitnessExhausted ==
    /\ consumer.kind = "result_poll"
    /\ consumer.outcome = "PollingException"
    /\ gen.invoked = 2

(***************************************************************************)
(* Properties of the batch operations.                                     *)
(***************************************************************************)
\* C23: in a batch, never more than max_workers tasks run at once; a task
\* that failed cancels no other (a queued task can start whenever a worker
\* is free, and tasks are only ever queued, running or ended); the batch
\* operation ends only when every task has ended, and it ends by the task
\* runner's exception exactly when at least one task failed.
C23_BatchAttemptsAllThenRaises ==
    /\ Cardinality(Running) <= batch.max_workers
    /\ \A k \in DOMAIN batch.tasks :
         batch.tasks[k] \in {"queued", "running", "ok", "failed"}
    /\ (batch.state = "running" /\ Queued # {}
          /\ Cardinality(Running) < batch.max_workers)
         => ENABLED StartTask
    /\ batch.state \in {"returned", "raised", "EnvironmentError"}
         => Running = {} /\ Queued = {}
    /\ batch.state = "raised"
         <=> (batch.state \notin {"none", "running"} /\ Failed # {})

\* IoComposite.start with three IO objects and two workers: the first
\* task failed, the other two ran all the same, and start() raised
C23_Witness ==
    /\ batch.op = "start"
    /\ batch.max_workers = 2
    /\ batch.tasks = <<"failed", "ok", "ok">>
    /\ batch.state = "raised"
    /\ batch.stopped

\* C24: the worker cap that login_all_targets, logout_all_sessions and
\* destroy_all_ifaces pass to the task runner is 1 on a virtual host and
\* the higher ceiling on physical hardware.
C24_WorkerCapFromHostClass ==
    batch.op \in {"login_all_targets", "logout_all_sessions",
                  "destroy_all_ifaces"}
        => batch.max_workers =
             (IF batch.on_hardware THEN MAX_ISCSI_WORKER ELSE 1)

(***************************************************************************)
(* Properties of tearing down.                                             *)
(***************************************************************************)
\* C25: when destroy_iface(name) has returned normally, the discovered
\* registry of the host holds no target whose interface is name.
C25_DestroyIfaceCleansRegistry ==
    \A t \in Threads :
        (Ended(t, "destroy_iface") /\ loc[t].result = "returned")
            => \A target \in Discovered : target.iface # call[t].iface

\* C26: when the command of destroy_iface or force_logout_all exited with
\* a status other than 0 and 6 and its output held none of the already-gone
\* messages, the call has raised EnvironmentError.
C26_UnrecognisedFailureRaises ==
    \A t \in Threads :
        ((Ended(t, "destroy_iface") \/ Ended(t, "force_logout_all"))
           /\ loc[t].status \notin {-1, 0, 6} /\ ~loc[t].gone)
            => loc[t].result = "EnvironmentError"

\* C29: a target leaves the logged-in registry of the host only in the
\* step in which a logout command returns with exit status 0 or with a
\* benign already-gone outcome.
C29_TargetLeavesOnlyAfterLogout ==
    [][(LoggedIn \ LoggedIn' # {})
         => \E t \in Threads :
              /\ pc[t] \in {"logout_cmd", "fla_cmd", "lot_iface_cmd",
                            "lot_task_cmd"}
              /\ (loc'[t].status = 0 \/ loc'[t].benign \/ loc'[t].gone)]_vars

(***************************************************************************)
(* Properties of the retry loops of logout() and delete().                 *)
(***************************************************************************)
RetryCount(t) ==
    IF call[t].op = "logout" THEN LOGOUT_RETRY_COUNT ELSE DELETE_RETRY_COUNT

C28_GoneOutputEndsLogout ==
    \A t \in Threads :
        (call[t].op = "logout"
           /\ (loc[t].status \in {3, 7, 21} \/ loc[t].gone))
            => pc[t] = "done" /\ loc[t].result = "returned"

(***************************************************************************)
(* Properties of commands against several hosts.                           *)
(***************************************************************************)
\* C30: a command against a host that waits to start can start whenever
\* everything that is held is held by commands against other hosts (no
\* command against its own host is opening a transport), however many
\* commands against the other hosts are blocked or under way.
C30_OtherHostNeverWaits ==
    \A h \in Fleet :
        (ops[h].waiting > 0 /\ ops[h].connecting = 0)
            => ENABLED EnterSema(h)

\* C31: when destroy_iface has ended after its delete command exited with
\* the busy status 6 on each of its 10 attempts, it has raised an error and
\* the discovered registry of the host is as it was when it was called.
C31_BusyExhaustionRaises ==
    \A t \in Threads :
        (Ended(t, "destroy_iface") /\ loc[t].status = 6
           /\ loc[t].current = DESTROY_IFACE_RETRIES)
            => /\ loc[t].result # "returned"
               /\ DISCOVERED_TARGETS[SystemName] = loc[t].pre

(***************************************************************************)
(* Properties of the start of an asynchronous command.                     *)
(***************************************************************************)
\* the command holds a redirection, a pipe, or a compound-statement
\* operator: `;`, `&&`, `||`, `&`, or a parenthesis opening a subshell
HasShellSyntax(cmd) ==
    \/ \E c \in {"|", ";", "&", "<", ">"} : Contains(cmd, c)
    \/ SearchesSubshell(cmd)

\* the first word of the command is a shell keyword or builtin
BeginsWithBuiltin(cmd) ==
    LET word == FirstField(LStrip(cmd))
    IN  Len(word) = 1 /\ word[1] \in ShellBuiltins

\* C32: the command line sent to the remote shell begins by printing the
\* shell's pid, and runs the user command under exec exactly when the
\* command holds no pipe, no redirection and no compound-statement
\* operator and does not begin with a shell keyword or builtin.
C32_ExecOnlyWhenSafe ==
    launch.fullcmd # <<>>
        => /\ Head(launch.fullcmd) = "echo $$; "
           /\ (Tail(launch.fullcmd) = <<"exec ">> \o launch.cmd)
                <=> (~HasShellSyntax(launch.cmd)
                       /\ ~BeginsWithBuiltin(launch.cmd))
           /\ Tail(launch.fullcmd) \in
                {launch.cmd, <<"exec ">> \o launch.cmd}

\* C38: when exec_command_async has ended with an error, the transport it
\* opened is not left open.
C38_FailedStartClosesConnection ==
    (launch.state = "ended" /\ launch.outcome = "raised")
        => launch.tp # "open"

(***************************************************************************)
(* Properties of the exit status and the output of an Async handle.        *)
(***************************************************************************)
\* C33: whatever the interleaving of the reader thread with kill() and
\* wait(), recv_exit_status is called at most once on the handle's
\* session, and an exit status that is stored is never changed.
C33_ExitStatusFetchedOnce ==
    /\ [](ahist.fetches <= 1)
    /\ [][handle.exit_status # <<>>
            => handle'.exit_status = handle.exit_status]_vars

\* the reader thread and a kill() or wait() of the user have both gone
\* through _wait_for_exit_status
C33_Witness ==
    /\ apc.recv = "ended"
    /\ ahist.completed
    /\ handle.exit_status # <<>>
    /\ ahist.fetches = 1

\* C34: when wait() has returned, the reader thread has ended (it read up
\* to the end of file of the channel) and the value returned is the exit
\* status the handle holds; and once the reader thread has ended it stays
\* ended and the output cache no longer changes.
C34_WaitReturnsAfterReader ==
    /\ []((apc.main = "adone" /\ acall.op = "wait"
             /\ acall.result = "returned")
            => /\ apc.recv = "ended"
               /\ acall.value # <<>>
               /\ acall.value = handle.exit_status)
    /\ [][apc.recv = "ended"
            => /\ apc'.recv = "ended"
               /\ handle'.output_cache = handle.output_cache]_vars

\* a first wait() has returned after the process wrote all its chunks
C34_Witness ==
    /\ apc.main = "adone" /\ acall.op = "wait" /\ acall.result = "returned"
    /\ ~acall.late
    /\ Len(handle.output_cache) = MaxChunks

(***************************************************************************)
(* Properties of the limiters under load.                                  *)
(***************************************************************************)
\* C35: the free permits of each semaphore of the host and the operations
\* inside its `with` blocks always make up its initial value (8 and 1), so
\* with no operation under way every permit is free, and an operation
\* waits at a semaphore without a free permit only while another
\* operation is inside a block of that semaphore, which it can leave.
C35_PermitsAlwaysReturned ==
    /\ ISCSIADM_SEMIS[SystemName] + guarded["single"] + guarded["loop"]
         + guarded["attempt"] = ISCSIADM_SEM_VALUE
    /\ UDEV_SEMIS[SystemName] + guarded["udev"] = UDEV_SEM_VALUE
    /\ OpsUnderWay = 0
         => /\ ISCSIADM_SEMIS[SystemName] = ISCSIADM_SEM_VALUE
            /\ UDEV_SEMIS[SystemName] = UDEV_SEM_VALUE
    /\ OpsUnderWay > 0
         => ENABLED (EnterIscsiadm \/ EnterUdev \/ LeaveIscsiadm
                       \/ LeaveAttempt \/ LeaveUdev)

\* every permit of the iscsiadm semaphore is taken and further operations
\* wait for one; the udev permit is taken as well
C35_Witness ==
    /\ ISCSIADM_SEMIS[SystemName] = 0
    /\ guarded["w_loop"] + guarded["w_single"] + guarded["w_attempt"] > 0
    /\ guarded["attempt"] > 0 /\ guarded["loop"] > 0
    /\ UDEV_SEMIS[SystemName] = 0

(***************************************************************************)
(* Properties of the interface and the portal named in a call.             *)
(***************************************************************************)
\* C36: the login tasks login_all_targets(iface_name=X) has queued are all
\* for discovered targets whose interface is X.
C36_LoginAllOnlyNamedIface ==
    \A t \in Threads :
        (pc[t] = "lat_task" /\ call[t].op = "login_all_targets")
            => \A i \in DOMAIN loc[t].snap :
                   loc[t].snap[i].iface = call[t].iface

\* C37: when delete(iqn, ip) with an ip given has ended, every target that
\* was in the discovered registry of the host when it was called, with
\* that iqn but another portal address, is still in the registry.
C37_DeleteKeepsOtherPortals ==
    \A t \in Threads :
        (Ended(t, "delete") /\ call[t].ip # None)
            => \A i \in DOMAIN loc[t].pre.list :
                   LET target == loc[t].pre.list[i]
                   IN  (target.iqn = call[t].iqn /\ target.ip # call[t].ip)
                           => target \in Discovered

(***************************************************************************)
(* Properties of the budget of poll().                                     *)
(***************************************************************************)
\* C39: a generator of poll() that was given a positive budget (a timeout
\* above 0, or no timeout and a retries argument of at least 1) has
\* invoked the operation at least once when it ends.
C39_PositiveBudgetInvokesOnce ==
    (/\ gen.state = "ended"
     /\ \/ gen.timeout # <<>> /\ gen.timeout # <<0>>
        \/ gen.timeout \in {<<>>, <<0>>} /\ gen.given >= 1)
        => gen.invoked >= 1

====
